---- MODULE Spec2Model ----
(***************************************************************************)
(* Model of the Mafia series engine (backend/game, backend/api/series.py,  *)
(* backend/websocket/manager.py).                                          *)
(*                                                                         *)
(* Specifications:                                                         *)
(*   Spec        one game: assign_roles followed by GameRunner.run, with   *)
(*               the stop request of the series arriving at any time       *)
(*   SpecFair    Spec with weak fairness of the runner's steps             *)
(*   SpecRoles   assign_roles on rosters of 4..8 players                   *)
(*   SpecLynch   _resolve_lynch on every set of ballots of a running game  *)
(*   SpecWin     _check_win_condition on every alive configuration         *)
(*   SpecFilter  _should_send_event on every subscriber and event          *)
(*   SpecSeries  start_series, stop_series, run_series and the WebSocket   *)
(*               subscriptions of one series                               *)
(*   SpecReflect the reflection pipeline of the games of a series          *)
(*   SpecAsOf    get_cheatsheet_at_game on the history of a player         *)
(*   SpecDecision the decision points of the runner on every outcome of    *)
(*               complete_json                                             *)
(*   SpecOracle  the retry loop of complete_json                           *)
(*   SpecLoaded  the cheatsheets loaded at the start of the games, the     *)
(*               versions stored after them and the as-of query            *)
(*   SpecQuery   get_events_for_player next to _should_send_event          *)
(*   SpecRoute   route_after_agent of the agent loop                       *)
(*   SpecSeeds   the seeds run_series derives for the games                *)
(*   SpecSpeeches the speeches of one day                                  *)
(*   SpecGraph   one run of the agent-loop graph                           *)
(*   SpecSnapshot the snapshot messages of a running game                  *)
(*   SpecStart   start requests for one series served concurrently         *)
(***************************************************************************)
EXTENDS Integers, Sequences, FiniteSets, TLC

VARIABLES
    \* ---- persistence store (db/models.py) ----
    series_status,        \* Series.status
    current_game_number,  \* Series.current_game_number
    game_status,          \* Game.status of the game being run
    game_winner,          \* Game.winner
    game_day_number,      \* Game.day_number
    db_game_players,      \* GamePlayer rows of the game, in creation order
    \* ---- assign_roles inputs ----
    player_ids,           \* roster handed to assign_roles
    fixed_roles,          \* player id -> fixed role, NoRole when not fixed
    \* ---- GameRunner ----
    pc,                   \* position of assign_roles / GameRunner.run
    game_players,         \* self._game_players (cache loaded from the rows)
    day_number,           \* self._day_number
    winner,               \* local 'winner' of run / value returned
    stopped,              \* local 'stopped' of run
    votes,                \* argument of _resolve_lynch (SpecLynch)
    vote_counts,          \* tally built by _resolve_lynch (SpecLynch)
    mafia_target,         \* local of _run_night_phase
    doctor_target,        \* local of _run_night_phase
    last_event,           \* the event most recently handed to _emit_event
    \* ---- WebSocket manager ----
    subscriptions,        \* ConnectionManager._subscriptions[series]
    delivered,            \* subscriptions the last broadcast event was sent to
    send_result,          \* value returned by _should_send_event (SpecFilter)
    \* ---- series orchestration ----
    start_pc,             \* position of the start_series handler
    stop_pc,              \* position of the stop_series handler
    stops_left,           \* stop requests the client may still send
    o_pc,                 \* position of run_series
    game_number,          \* loop variable of run_series
    stop_after_reflection, \* local of run_series
    games_created,        \* number of Game rows created for the series
    \* ---- reflection ----
    cheatsheets,          \* player id -> Cheatsheet rows, in insertion order
    r_pc,                 \* player id -> position of its reflect_player task
    r_local,              \* player id -> locals of its run_for_player call
    r_events,             \* player id -> its reflection events of the game
    asof_game,            \* argument game_number of get_cheatsheet_at_game
    asof_result,          \* row returned by get_cheatsheet_at_game
    loaded,               \* player id -> cheatsheet versions loaded, by game
    \* ---- the speeches of a day ----
    day_discussion,       \* self._day_discussion
    speaking_order,       \* local 'speaking_order' of _run_day_phase
    prompts,              \* the prompts of the day's speakers, in order
    \* ---- oracle calls ----
    attempt,              \* loop variable of complete_json
    last_error,           \* local 'last_error' of complete_json
    llm_result,           \* a call of complete_json: arguments and result
    decision,             \* a decision point of the runner and its outcome
    \* ---- single calls ----
    selected,             \* events returned by get_events_for_player
    route,                \* a call of route_after_agent: state and result
    seeds,                \* base seed of a series and the seeds of its games
    snapshot,             \* the snapshot message last sent and its receivers
    tasks                 \* start request -> position of the run_series task it created

vars == << series_status, current_game_number, game_status, game_winner,
           game_day_number, db_game_players, player_ids, fixed_roles, pc,
           game_players, day_number, winner, stopped, votes,
           vote_counts, mafia_target, doctor_target, last_event, subscriptions, delivered,
           send_result, start_pc, stop_pc, stops_left, o_pc, game_number,
           stop_after_reflection, games_created, cheatsheets, r_pc, r_local,
           r_events, asof_game, asof_result, loaded, day_discussion,
           speaking_order, prompts, attempt, last_error, llm_result,
           decision, selected, route, seeds, snapshot, tasks >>

gameVars == << game_status, game_winner, game_day_number, db_game_players,
               player_ids, fixed_roles, pc, game_players, day_number, winner,
               stopped, mafia_target, doctor_target >>

lynchVars == << votes, vote_counts >>

wsVars == << subscriptions, delivered, send_result >>

gameVarsButPc == << game_status, game_winner, game_day_number,
                    db_game_players, player_ids, fixed_roles, game_players,
                    day_number, winner, stopped, mafia_target,
                    doctor_target >>

seriesVars == << start_pc, stop_pc, stops_left, o_pc, game_number,
                 stop_after_reflection, current_game_number, games_created >>

reflVars == << cheatsheets, r_pc, r_local, r_events, asof_game, asof_result >>

dayVars == << day_discussion, speaking_order, prompts >>

oracleVars == << attempt, last_error, llm_result, decision >>

callVars == << selected, route, seeds, snapshot, tasks >>

harnessVars == << loaded, dayVars, oracleVars, callVars >>

----------------------------------------------------------------------------
(* Bounds of the model *)

\* Day numbers above MaxDay are identified with MaxDay.
MaxDay == 3

\* Largest number of players with a fixed role in SpecRoles.
MaxFixed == 2

\* Stop requests a client sends in SpecSeries.
MaxStops == 2

\* Games of the series in SpecSeries (SeriesConfig.total_games).
TotalGames == 2

\* Subscriptions of the series in SpecSeries.
MaxSubs == 1

\* Start requests served concurrently for one series.
MaxStarts == 3

\* Participants whose reflection runs in SpecReflect.
MaxReflecting == 2

\* Largest game number asked of the as-of query in SpecAsOf.
MaxAsOf == 6

----------------------------------------------------------------------------
(* Values *)

None == "None"

NoRole == "none"

\* The NULL of GamePlayer.eliminated_day (days are numbered from 1).
NoDay == 0

\* The NULL of Cheatsheet.created_after_game (games are numbered from 1).
NoGame == 0

AllPlayers == << "p1", "p2", "p3", "p4", "p5", "p6", "p7", "p8" >>

Roster == SubSeq(AllPlayers, 1, 5)

RosterSizes == 4..8

Roles == {"mafia", "doctor", "deputy", "townsperson"}

\* Order of the keys of a ROLE_DISTRIBUTION entry.
RoleOrder == << "mafia", "doctor", "deputy", "townsperson" >>

ROLE_DISTRIBUTION ==
    [n \in {5, 6, 7} |->
        [r \in Roles |->
            CASE r = "mafia"       -> IF n = 5 THEN 1 ELSE 2
              [] r = "doctor"      -> 1
              [] r = "deputy"      -> 1
              [] r = "townsperson" -> IF n = 7 THEN 3 ELSE 2]]

Range(s) == {s[i] : i \in DOMAIN s}

\* The version 0 row create_series stores for every player; the items of a
\* cheatsheet are modelled by the list of the games whose curation produced
\* them, the initial items by the empty list.
InitialCheatsheet ==
    [version |-> 0, items |-> << >>, created_after_game |-> NoGame]

\* 'last_error: Exception | None = None' of complete_json.
NoError == << None, "exact" >>

\* No call of complete_json.
NoCall ==
    [max_retries |-> 0, timeout |-> 0, calls |-> 0, longest |-> 0,
     result |-> NoError]

\* No decision point has been entered.
NoDecision ==
    [kind |-> None, actor |-> 0, answer |-> << None, "exact" >>,
     raised |-> FALSE, result |-> << None, "exact" >>]

\* The locals of run_for_player before the call; 'raised' is the exception
\* its last stage raised.
NoLocals ==
    [current_cheatsheet |-> [items |-> << >>, version |-> 0],
     reflector_output |-> None,
     final_cheatsheet |-> [items |-> << >>, version |-> 0],
     curator_called |-> FALSE,
     raised |-> None]

\* Number of positions of s holding x.
Count(s, x) == Cardinality({i \in DOMAIN s : s[i] = x})

----------------------------------------------------------------------------
(* assign_roles (game/runner.py) *)

\* Roles of the fixed-role players, in roster order (the items of fixed_roles).
FixedItems(ids, fixed) ==
    LET F[i \in 0..Len(ids)] ==
            IF i = 0 THEN << >>
            ELSE IF fixed[ids[i]] # NoRole
                 THEN Append(F[i - 1], fixed[ids[i]])
                 ELSE F[i - 1]
    IN  F[Len(ids)]

SubtractFixedNoDecrement(dist, items) == [error |-> FALSE, dist |-> dist]

\* The validation loop: each fixed role needs a positive remaining count and
\* takes one from it; error stands for the ValueError.
RECURSIVE SubtractFixed(_, _)
SubtractFixed(dist, items) ==
    IF items = << >> THEN [error |-> FALSE, dist |-> dist]
    ELSE IF dist[Head(items)] <= 0 THEN [error |-> TRUE, dist |-> dist]
         ELSE SubtractFixed([dist EXCEPT ![Head(items)] = @ - 1], Tail(items))

\* remaining_roles before the shuffle: each role repeated by its count.
RemainingRoles(dist) ==
    LET R[i \in 0..Len(RoleOrder)] ==
            IF i = 0 THEN << >>
            ELSE R[i - 1] \o [k \in 1..dist[RoleOrder[i]] |-> RoleOrder[i]]
    IN  R[Len(RoleOrder)]

\* Every order rng.shuffle can leave the list in.
Shuffles(list) ==
    {s \in [1..Len(list) -> Range(list)] :
        \A x \in Range(list) : Count(s, x) = Count(list, x)}

NewGamePlayer(id, role) ==
    [player_id |-> id, role |-> role, is_alive |-> TRUE,
     eliminated_day |-> NoDay, elimination_type |-> None]

\* The assignment loop: a fixed player gets the fixed role, any other player
\* pops the last element of the shuffled pool.
RECURSIVE AssignLoop(_, _, _)
AssignLoop(ids, fixed, pool) ==
    IF ids = << >> THEN << >>
    ELSE IF fixed[Head(ids)] # NoRole
         THEN << NewGamePlayer(Head(ids), fixed[Head(ids)]) >>
                  \o AssignLoop(Tail(ids), fixed, pool)
         ELSE << NewGamePlayer(Head(ids), pool[Len(pool)]) >>
                  \o AssignLoop(Tail(ids), fixed, SubSeq(pool, 1, Len(pool) - 1))

AssignRoles ==
    /\ pc = "assign"
    /\ IF Len(player_ids) \notin DOMAIN ROLE_DISTRIBUTION
       THEN /\ pc' = "error"
            /\ UNCHANGED db_game_players
       ELSE LET distribution ==
                    SubtractFixed(ROLE_DISTRIBUTION[Len(player_ids)],
                                  FixedItems(player_ids, fixed_roles))
            IN  IF distribution.error
                THEN /\ pc' = "error"
                     /\ UNCHANGED db_game_players
                ELSE \E pool \in Shuffles(RemainingRoles(distribution.dist)) :
                        /\ db_game_players' =
                               AssignLoop(player_ids, fixed_roles, pool)
                        /\ pc' = "start"
    /\ UNCHANGED << series_status, game_status, game_winner, game_day_number,
                    player_ids, fixed_roles, game_players, day_number, winner,
                    stopped, mafia_target, doctor_target, last_event >>
    /\ UNCHANGED lynchVars
    /\ UNCHANGED wsVars
    /\ UNCHANGED seriesVars
    /\ UNCHANGED reflVars
    /\ UNCHANGED harnessVars

----------------------------------------------------------------------------
(* GameRunner (game/runner.py) *)

\* A ballot is the string an agent's vote ends up as: a player name in some
\* spelling, or "no_lynch".  Names are compared case-insensitively by
\* _get_player_by_name, so a name has an exact spelling and a spelling that
\* differs from it in letter case only.
Spellings == {"exact", "recased"}

NO_LYNCH == << "no_lynch", "exact" >>

\* GameEvent; the game id is the number of the game in its series.
GameEvent(game_id, type, visibility, actor_id, target_id, payload) ==
    [game_id |-> game_id, type |-> type, visibility |-> visibility,
     actor_id |-> actor_id, target_id |-> target_id, payload |-> payload]

\* The event _emit_event builds for the game being run.
Event(type, visibility, actor_id, target_id, payload) ==
    GameEvent(game_number, type, visibility, actor_id, target_id, payload)

NoEvent == GameEvent(0, None, None, None, None, [none |-> TRUE])

\* _load_game_players: the cached dicts, one per GamePlayer row.
LoadGamePlayers(rows) ==
    [i \in DOMAIN rows |->
        [player_id |-> rows[i].player_id, role |-> rows[i].role,
         is_alive |-> rows[i].is_alive]]

\* _get_alive_players
AlivePlayers(gps) == SelectSeq(gps, LAMBDA p : p.is_alive)

\* A player's name as stored (player names are taken distinct and are
\* identified with the player ids).
Name(p) == << p.player_id, "exact" >>

AliveNames(gps) == {Name(p) : p \in Range(AlivePlayers(gps))}

\* str.lower(): every spelling of a name has the same lower-case form.
Lower(str) == << str[1], "lower" >>

\* _get_player_by_name: index of the first player whose lower-cased name is
\* the lower-cased string, 0 for None.
GetPlayerByName(gps, str) ==
    IF \E i \in DOMAIN gps : Lower(Name(gps[i])) = Lower(str)
    THEN CHOOSE i \in DOMAIN gps :
            /\ Lower(Name(gps[i])) = Lower(str)
            /\ \A j \in DOMAIN gps :
                  Lower(Name(gps[j])) = Lower(str) => i <= j
    ELSE 0

CheckWinConditionStrict(gps) ==
    LET alive       == AlivePlayers(gps)
        mafia_count == Count([i \in DOMAIN alive |-> alive[i].role], "mafia")
        town_count  == Len(alive) - mafia_count
    IN  IF mafia_count = 0 THEN "town"
        ELSE IF mafia_count > town_count THEN "mafia"
        ELSE None

\* _check_win_condition
CheckWinCondition(gps) ==
    LET alive       == AlivePlayers(gps)
        mafia_count == Count([i \in DOMAIN alive |-> alive[i].role], "mafia")
        town_count  == Len(alive) - mafia_count
    IN  IF mafia_count = 0 THEN "town"
        ELSE IF mafia_count >= town_count THEN "mafia"
        ELSE None

\* self._day_number += 1
NextDay(d) == IF d < MaxDay THEN d + 1 ELSE d

CheckStopRequestedWrongStatus == series_status = "stopped"

\* _check_stop_requested: TRUE when GameStoppedException is raised.
CheckStopRequested == series_status = "stop_requested"

\* The oracle call raising LLMError.
LLMError == << "LLMError", "exact" >>

\* What an oracle may answer when asked for a vote: any ballot at all
\* (valid or not), or a failure.
VoteAnswers(gps) ==
    {<< gps[i].player_id, sp >> : i \in DOMAIN gps, sp \in Spellings}
        \cup {NO_LYNCH, << "no_lynch", "recased" >>, << "nobody", "exact" >>,
              LLMError}

\* _player_vote without its validation: the answer of the oracle is the
\* ballot, a failure alone being replaced.
PlayerVoteUnvalidated(gps, voter) ==
    {IF a # LLMError THEN a ELSE NO_LYNCH : a \in VoteAnswers(gps)}

\* _player_vote: the ballots the player can end up casting.  An answer other
\* than "no_lynch" that names nobody, a dead player or the voter, and an
\* oracle failure, are replaced by a random choice among the other living
\* players' names and "no_lynch".
PlayerVote(gps, voter) ==
    LET alive_names == AliveNames(gps) \ {Name(gps[voter])}
        fallbacks   == alive_names \cup {NO_LYNCH}
        valid(a)    == \/ a = NO_LYNCH
                       \/ /\ a # LLMError
                          /\ GetPlayerByName(gps, a) # 0
                          /\ gps[GetPlayerByName(gps, a)].is_alive
                          /\ GetPlayerByName(gps, a) # voter
    IN  {IF valid(a) THEN a ELSE f : a \in VoteAnswers(gps), f \in fallbacks}

\* vote_counts[vote] = vote_counts.get(vote, 0) + 1
CountVote(counts, vote) ==
    IF vote \in DOMAIN counts
    THEN [counts EXCEPT ![vote] = @ + 1]
    ELSE [b \in DOMAIN counts \cup {vote} |->
             IF b = vote THEN 1 ELSE counts[b]]

EmptyCounts == [b \in {} |-> 0]

\* The counting loop of _resolve_lynch over the items of the votes dict.
RECURSIVE CountVotes(_)
CountVotes(vs) ==
    IF DOMAIN vs = {} THEN EmptyCounts
    ELSE LET v == CHOOSE x \in DOMAIN vs : TRUE
         IN  CountVote(CountVotes([x \in DOMAIN vs \ {v} |-> vs[x]]), vs[v])

\* The tallies the ballots of the voters (indices into gps) can add up to.
RECURSIVE Tallies(_, _)
Tallies(gps, voters) ==
    IF voters = {} THEN {EmptyCounts}
    ELSE LET v == CHOOSE x \in voters : TRUE
         IN  {CountVote(t, b) : t \in Tallies(gps, voters \ {v}),
                                b \in PlayerVote(gps, v)}

MaxVotes(counts) ==
    CHOOSE m \in Range(counts) : \A b \in DOMAIN counts : counts[b] <= m

\* top_voted
TopVoted(counts) == {b \in DOMAIN counts : counts[b] = MaxVotes(counts)}

LynchTargetIgnoringNoLynch(gps, counts) ==
    LET names == {b \in DOMAIN counts : b # NO_LYNCH}
        top   == {b \in names : \A c \in names : counts[c] <= counts[b]}
    IN  IF Cardinality(top) = 1
        THEN GetPlayerByName(gps, CHOOSE b \in top : TRUE)
        ELSE 0

\* _resolve_lynch: index of the lynched player, 0 when nobody is lynched.
LynchTarget(gps, counts) ==
    LET top == TopVoted(counts)
    IN  IF Cardinality(top) = 1 /\ top # {NO_LYNCH}
        THEN GetPlayerByName(gps, CHOOSE b \in top : TRUE)
        ELSE 0

\* Every entry marked dead.
MarkDeadAll(gps, i) == [j \in DOMAIN gps |-> [gps[j] EXCEPT !.is_alive = FALSE]]

\* target["is_alive"] = False
MarkDead(gps, i) == [gps EXCEPT ![i].is_alive = FALSE]

\* crud.update_game_player(is_alive=False, eliminated_day, elimination_type)
UpdateGamePlayer(rows, i, day, type) ==
    [rows EXCEPT ![i].is_alive = FALSE, ![i].eliminated_day = day,
                 ![i].elimination_type = type]

----------------------------------------------------------------------------
(* GameRunner.run *)

\* run, up to the game loop: load the players, mark the game started.
RunStart ==
    /\ pc = "start"
    /\ game_players' = LoadGamePlayers(db_game_players)
    /\ game_status' = "day"
    /\ last_event' = Event("game_started", "public", None, None,
                           [player_count |-> Len(db_game_players)])
    /\ pc' = "loop"
    /\ UNCHANGED << series_status, game_winner, game_day_number,
                    db_game_players, player_ids, fixed_roles, day_number,
                    winner, stopped, mafia_target, doctor_target >>
    /\ UNCHANGED lynchVars
    /\ UNCHANGED wsVars
    /\ UNCHANGED seriesVars
    /\ UNCHANGED reflVars
    /\ UNCHANGED harnessVars

\* Top of the game loop: next day, then the stop check before the day phase.
LoopTop ==
    /\ pc = "loop"
    /\ day_number' = NextDay(day_number)
    /\ IF CheckStopRequested
       THEN stopped' = TRUE /\ pc' = "end"
       ELSE stopped' = stopped /\ pc' = "day"
    /\ mafia_target' = None
    /\ doctor_target' = None
    /\ UNCHANGED << series_status, game_status, game_winner, game_day_number,
                    db_game_players, player_ids, fixed_roles, game_players,
                    winner, last_event >>
    /\ UNCHANGED lynchVars
    /\ UNCHANGED wsVars
    /\ UNCHANGED seriesVars
    /\ UNCHANGED reflVars
    /\ UNCHANGED harnessVars

\* _run_day_phase up to the voting: the game row is set to Day and every
\* living player speaks.
DayStart ==
    /\ pc = "day"
    /\ game_status' = "day"
    /\ game_day_number' = day_number
    /\ last_event' = Event("day_started", "public", None, None,
                           [day_number |-> day_number])
    /\ pc' = "voting"
    /\ UNCHANGED << series_status, game_winner, db_game_players, player_ids,
                    fixed_roles, game_players, day_number, winner, stopped,
                    mafia_target, doctor_target >>
    /\ UNCHANGED lynchVars
    /\ UNCHANGED wsVars
    /\ UNCHANGED seriesVars
    /\ UNCHANGED reflVars
    /\ UNCHANGED harnessVars

\* The rest of _run_day_phase: the game row is set to Voting, every player
\* alive at the start of the day votes, _resolve_lynch, _check_win_condition.
Voting ==
    /\ pc = "voting"
    /\ game_status' = "voting"
    /\ \E tally \in
           Tallies(game_players,
                   {i \in DOMAIN game_players : game_players[i].is_alive}) :
          LET target == LynchTarget(game_players, tally)
              after  == IF target # 0 THEN MarkDead(game_players, target)
                        ELSE game_players
          IN  /\ game_players' = after
              /\ db_game_players' =
                     IF target # 0
                     THEN UpdateGamePlayer(db_game_players, target,
                                           day_number, "lynched")
                     ELSE db_game_players
              /\ last_event' =
                     Event("lynch_result", "public", None,
                           IF target # 0 THEN game_players[target].player_id
                           ELSE None,
                           [lynched |-> IF target # 0
                                         THEN game_players[target].player_id
                                         ELSE None])
              /\ winner' = CheckWinCondition(after)
              /\ pc' = IF CheckWinCondition(after) # None THEN "end"
                       ELSE "pre_night"
    /\ UNCHANGED << series_status, game_winner, game_day_number, player_ids,
                    fixed_roles, day_number, stopped, mafia_target,
                    doctor_target >>
    /\ UNCHANGED lynchVars
    /\ UNCHANGED wsVars
    /\ UNCHANGED seriesVars
    /\ UNCHANGED reflVars
    /\ UNCHANGED harnessVars

\* The stop check before the night phase.
PreNight ==
    /\ pc = "pre_night"
    /\ IF CheckStopRequested
       THEN stopped' = TRUE /\ pc' = "end"
       ELSE stopped' = stopped /\ pc' = "night"
    /\ UNCHANGED << series_status, game_status, game_winner, game_day_number,
                    db_game_players, player_ids, fixed_roles, game_players,
                    day_number, winner, mafia_target, doctor_target,
                    last_event >>
    /\ UNCHANGED lynchVars
    /\ UNCHANGED wsVars
    /\ UNCHANGED seriesVars
    /\ UNCHANGED reflVars
    /\ UNCHANGED harnessVars

\* _mafia_kill_choice: None without a living Mafia member or without a
\* valid target, else a living non-Mafia player (the oracle's answer when it
\* is one, a random one otherwise).
MafiaKillChoice(gps) ==
    LET alive         == Range(AlivePlayers(gps))
        valid_targets == {p.player_id : p \in {q \in alive : q.role # "mafia"}}
    IN  IF \A p \in alive : p.role # "mafia" THEN {None}
        ELSE IF valid_targets = {} THEN {None}
        ELSE valid_targets

\* _doctor_save_choice: None without a living doctor, else a living player.
DoctorSaveChoice(gps) ==
    LET alive == Range(AlivePlayers(gps))
    IN  IF \A p \in alive : p.role # "doctor" THEN {None}
        ELSE {p.player_id : p \in alive}

NightKillUnprotected(gps, mt, dt) ==
    IF mt # None
    THEN LET i == GetPlayerByName(gps, << mt, "exact" >>)
         IN  IF i # 0 /\ gps[i].is_alive THEN i ELSE 0
    ELSE 0

\* Resolution of the night: index of the killed player, 0 when nobody dies.
NightKill(gps, mt, dt) ==
    IF mt # None /\ mt # dt
    THEN LET i == GetPlayerByName(gps, << mt, "exact" >>)
         IN  IF i # 0 /\ gps[i].is_alive THEN i ELSE 0
    ELSE 0

\* _run_night_phase, writing 'status' to the game row on entry.
NightPhase(status) ==
    /\ pc = "night"
    /\ game_status' = status
    /\ \E mt \in MafiaKillChoice(game_players),
          dt \in DoctorSaveChoice(game_players) :
          LET killed == NightKill(game_players, mt, dt)
              after  == IF killed # 0 THEN MarkDead(game_players, killed)
                        ELSE game_players
          IN  /\ mafia_target' = mt
              /\ doctor_target' = dt
              /\ game_players' = after
              /\ db_game_players' =
                     IF killed # 0
                     THEN UpdateGamePlayer(db_game_players, killed,
                                           day_number, "killed")
                     ELSE db_game_players
              /\ last_event' =
                     Event("night_result", "public", None,
                           IF killed # 0 THEN game_players[killed].player_id
                           ELSE None,
                           [was_saved |-> (mt = dt /\ mt # None)])
              /\ winner' = CheckWinCondition(after)
              /\ pc' = IF CheckWinCondition(after) # None THEN "end"
                       ELSE "loop"
    /\ UNCHANGED << series_status, game_winner, game_day_number, player_ids,
                    fixed_roles, day_number, stopped >>
    /\ UNCHANGED lynchVars
    /\ UNCHANGED wsVars
    /\ UNCHANGED seriesVars
    /\ UNCHANGED reflVars
    /\ UNCHANGED harnessVars

NightStatusNotWritten == NightPhase(game_status)

\* _run_night_phase
Night == NightPhase("night")

\* 'End game': the game row is completed and GAME_ENDED is emitted.
EndGame ==
    /\ pc = "end"
    /\ game_status' = "completed"
    /\ game_winner' = IF winner # None THEN winner ELSE game_winner
    /\ last_event' = Event("game_ended", "public", None, None,
                           [day_number |-> day_number, stopped |-> stopped,
                            winner |-> winner])
    /\ mafia_target' = None
    /\ doctor_target' = None
    /\ pc' = "done"
    /\ UNCHANGED << series_status, game_day_number, db_game_players,
                    player_ids, fixed_roles, game_players, day_number, winner,
                    stopped >>
    /\ UNCHANGED lynchVars
    /\ UNCHANGED wsVars
    /\ UNCHANGED seriesVars
    /\ UNCHANGED reflVars
    /\ UNCHANGED harnessVars

\* stop_series accepted while the game runs: the series is in progress and
\* becomes StopRequested.
StopRequest ==
    /\ pc \notin {"done", "error"}
    /\ series_status = "in_progress"
    /\ series_status' = "stop_requested"
    /\ UNCHANGED gameVars
    /\ UNCHANGED last_event
    /\ UNCHANGED lynchVars
    /\ UNCHANGED wsVars
    /\ UNCHANGED seriesVars
    /\ UNCHANGED reflVars
    /\ UNCHANGED harnessVars

RunnerNext ==
    \/ AssignRoles
    \/ RunStart
    \/ LoopTop
    \/ DayStart
    \/ Voting
    \/ PreNight
    \/ Night
    \/ EndGame

Next == RunnerNext \/ StopRequest

\* Fixed-role configurations of the series whose game is run.
GameFixedRoles ==
    { [p \in Range(AllPlayers) |->
          CASE p = "p1" -> "mafia" [] p = "p2" -> "doctor"
            [] p = "p3" -> "deputy" [] OTHER -> NoRole],
      [p \in Range(AllPlayers) |->
          CASE p = "p2" -> "mafia" [] p = "p1" -> "doctor" [] OTHER -> NoRole] }

\* Values of the variables a specification does not use.
IdleGame ==
    /\ game_status = "pending"
    /\ game_winner = None
    /\ game_day_number = 0
    /\ db_game_players = << >>
    /\ game_players = << >>
    /\ day_number = 0
    /\ winner = None
    /\ stopped = FALSE
    /\ mafia_target = None
    /\ doctor_target = None
    /\ last_event = NoEvent
    /\ votes = << >>
    /\ vote_counts = EmptyCounts

IdleWs ==
    /\ subscriptions = << >>
    /\ delivered = {}
    /\ send_result = FALSE

IdleSeries ==
    /\ current_game_number = 0
    /\ start_pc = "idle"
    /\ stop_pc = "idle"
    /\ stops_left = 0
    /\ o_pc = "idle"
    /\ game_number = 0
    /\ stop_after_reflection = FALSE
    /\ games_created = 0

\* create_series: every player starts with version 0 of its cheatsheet, and
\* no reflection has run.
IdleRefl ==
    /\ cheatsheets = [p \in Range(Roster) |-> << InitialCheatsheet >>]
    /\ r_pc = [p \in Range(Roster) |-> "idle"]
    /\ r_local = [p \in Range(Roster) |-> NoLocals]
    /\ r_events = [p \in Range(Roster) |-> {}]
    /\ asof_game = NoGame
    /\ asof_result = InitialCheatsheet

\* No call of route_after_agent.
NoRoute ==
    [iteration |-> 0, max_iterations |-> 0, is_ai |-> FALSE,
     tool_calls |-> FALSE, content_len |-> 0, result |-> None]

\* No series whose games are seeded.
NoSeeds == [has_seed |-> FALSE, base_seed |-> 0, games |-> << >>]

\* The start requests served concurrently.
StartHandlers == 1..MaxStarts

\* No start request has created a run_series task.
NoTasks == [h \in StartHandlers |-> "none"]

\* No snapshot message sent yet.
NoSnapshot == [to |-> {}, players |-> << >>]

\* No query for stored events, no routing call, no seeding and no snapshot.
IdleCalls ==
    /\ selected = {}
    /\ route = NoRoute
    /\ seeds = NoSeeds
    /\ snapshot = NoSnapshot
    /\ tasks = NoTasks

\* No game has loaded a cheatsheet.
IdleLoaded == loaded = [p \in Range(Roster) |-> << >>]

\* No day has started.
IdleDay ==
    /\ day_discussion = << >>
    /\ speaking_order = << >>
    /\ prompts = << >>

\* No oracle call and no decision has been made.
IdleOracle ==
    /\ attempt = 0
    /\ last_error = NoError
    /\ llm_result = NoCall
    /\ decision = NoDecision

\* A game created by run_series (create_game) for a roster of five, before
\* assign_roles; the series is in progress.
Init ==
    /\ series_status = "in_progress"
    /\ player_ids = Roster
    /\ fixed_roles \in GameFixedRoles
    /\ pc = "assign"
    /\ IdleGame
    /\ IdleWs
    /\ IdleSeries
    /\ IdleRefl
    /\ IdleLoaded
    /\ IdleDay
    /\ IdleOracle
    /\ IdleCalls

Spec == Init /\ [][Next]_vars

SpecFair == Init /\ [][Next]_vars /\ WF_vars(RunnerNext)

----------------------------------------------------------------------------
(* The voting loop of _run_day_phase and _resolve_lynch, ballot by ballot *)

\* One iteration of 'for player in alive: votes[player_id] = _player_vote()':
\* the next living player in roster order casts a ballot.
CastVote ==
    /\ pc = "vote"
    /\ LET alive  == {i \in DOMAIN game_players : game_players[i].is_alive}
           voted  == {i \in alive : game_players[i].player_id \in DOMAIN votes}
           voter  == CHOOSE i \in alive \ voted :
                        \A j \in alive \ voted : i <= j
       IN  /\ alive # voted
           /\ \E b \in PlayerVote(game_players, voter) :
                  votes' = [id \in DOMAIN votes
                                   \cup {game_players[voter].player_id} |->
                               IF id \in DOMAIN votes THEN votes[id] ELSE b]
           /\ pc' = IF alive = voted \cup {voter} THEN "resolve" ELSE "vote"
    /\ UNCHANGED << series_status, game_status, game_winner, game_day_number,
                    db_game_players, player_ids, fixed_roles, game_players,
                    day_number, winner, stopped, vote_counts, mafia_target,
                    doctor_target, last_event >>
    /\ UNCHANGED wsVars
    /\ UNCHANGED seriesVars
    /\ UNCHANGED reflVars
    /\ UNCHANGED harnessVars

\* _resolve_lynch(votes)
ResolveLynch ==
    /\ pc = "resolve"
    /\ LET counts == CountVotes(votes)
           target == LynchTarget(game_players, counts)
       IN  /\ vote_counts' = counts
           /\ game_players' = IF target # 0 THEN MarkDead(game_players, target)
                              ELSE game_players
           /\ db_game_players' =
                  IF target # 0
                  THEN UpdateGamePlayer(db_game_players, target, day_number,
                                        "lynched")
                  ELSE db_game_players
           /\ last_event' =
                  Event("lynch_result", "public", None,
                        IF target # 0 THEN game_players[target].player_id
                        ELSE None,
                        [lynched |-> IF target # 0
                                     THEN game_players[target].player_id
                                     ELSE None])
    /\ pc' = "resolved"
    /\ UNCHANGED << series_status, game_status, game_winner, game_day_number,
                    player_ids, fixed_roles, day_number, winner, stopped,
                    votes, mafia_target, doctor_target >>
    /\ UNCHANGED wsVars
    /\ UNCHANGED seriesVars
    /\ UNCHANGED reflVars
    /\ UNCHANGED harnessVars

NextLynch == CastVote \/ ResolveLynch

\* Roles of the five players in the games of SpecLynch.
LynchRoles == << "mafia", "doctor", "deputy", "townsperson", "townsperson" >>

\* The GamePlayer rows of a game of five at the Voting of day 1 (the dead set
\* is empty) or day 2 (one player killed in night 1, or one lynched on day 1
\* and one killed in night 1).
RowsWithDead(dead) ==
    [i \in 1..5 |->
        IF i \notin dead THEN NewGamePlayer(Roster[i], LynchRoles[i])
        ELSE [player_id |-> Roster[i], role |-> LynchRoles[i],
              is_alive |-> FALSE, eliminated_day |-> 1,
              elimination_type |->
                  IF Cardinality(dead) = 2 /\ \A j \in dead : i <= j
                  THEN "lynched" ELSE "killed"]]

\* A running game at the start of the voting loop of _run_day_phase: the
\* game goes on (no side has won) and no ballot has been cast yet.
InitLynch ==
    /\ IdleSeries
    /\ IdleRefl
    /\ IdleLoaded
    /\ IdleDay
    /\ IdleOracle
    /\ IdleCalls
    /\ series_status = "in_progress"
    /\ player_ids = Roster
    /\ fixed_roles = [p \in Range(AllPlayers) |-> NoRole]
    /\ pc = "vote"
    /\ game_status = "voting"
    /\ game_winner = None
    /\ \E dead \in SUBSET (1..5) :
          /\ Cardinality(dead) <= 2
          /\ db_game_players = RowsWithDead(dead)
          /\ day_number = IF dead = {} THEN 1 ELSE 2
    /\ game_day_number = day_number
    /\ game_players = LoadGamePlayers(db_game_players)
    /\ CheckWinCondition(game_players) = None
    /\ winner = None
    /\ stopped = FALSE
    /\ mafia_target = None
    /\ doctor_target = None
    /\ last_event = Event("day_started", "public", None, None,
                          [day_number |-> day_number])
    /\ votes = << >>
    /\ vote_counts = EmptyCounts
    /\ IdleWs

SpecLynch == InitLynch /\ [][NextLynch]_vars

----------------------------------------------------------------------------
(* _check_win_condition on every alive configuration *)

CheckWin ==
    /\ pc = "check"
    /\ winner' = CheckWinCondition(game_players)
    /\ pc' = "checked"
    /\ UNCHANGED << series_status, game_status, game_winner, game_day_number,
                    db_game_players, player_ids, fixed_roles, game_players,
                    day_number, stopped, mafia_target, doctor_target,
                    last_event >>
    /\ UNCHANGED lynchVars
    /\ UNCHANGED wsVars
    /\ UNCHANGED seriesVars
    /\ UNCHANGED reflVars
    /\ UNCHANGED harnessVars

NextWin == CheckWin

\* Any roster of five with any roles and any alive flags.
InitWin ==
    /\ series_status = "in_progress"
    /\ player_ids = Roster
    /\ fixed_roles = [p \in Range(AllPlayers) |-> NoRole]
    /\ pc = "check"
    /\ game_status = "day"
    /\ game_winner = None
    /\ game_day_number = 1
    /\ db_game_players = << >>
    /\ \E roles \in [1..5 -> Roles], alive \in [1..5 -> BOOLEAN] :
          game_players = [i \in 1..5 |->
                             [player_id |-> Roster[i], role |-> roles[i],
                              is_alive |-> alive[i]]]
    /\ day_number = 1
    /\ winner = None
    /\ stopped = FALSE
    /\ mafia_target = None
    /\ doctor_target = None
    /\ last_event = NoEvent
    /\ votes = << >>
    /\ vote_counts = EmptyCounts
    /\ IdleWs
    /\ IdleSeries
    /\ IdleRefl
    /\ IdleLoaded
    /\ IdleDay
    /\ IdleOracle
    /\ IdleCalls

SpecWin == InitWin /\ [][NextWin]_vars

----------------------------------------------------------------------------
(* ConnectionManager (websocket/manager.py) *)

Subscription(viewer_mode, player_id, player_role) ==
    [viewer_mode |-> viewer_mode, player_id |-> player_id,
     player_role |-> player_role]

ShouldSendEventPrivateToAll(subscription, event) ==
    \/ subscription.viewer_mode
    \/ event.visibility \in {"public", "private"}
    \/ event.visibility = "mafia" /\ subscription.player_role = "mafia"

\* _should_send_event
ShouldSendEvent(subscription, event) ==
    IF subscription.viewer_mode THEN TRUE
    ELSE IF event.visibility = "public" THEN TRUE
    ELSE IF event.visibility = "mafia" /\ subscription.player_role = "mafia"
         THEN TRUE
    ELSE IF event.visibility = "private"
            /\ subscription.player_id = event.actor_id
         THEN TRUE
    ELSE FALSE

\* broadcast_event: the subscriptions of the series the event is sent to.
BroadcastEvent(subs, event) ==
    {i \in DOMAIN subs : ShouldSendEvent(subs[i], event)}

Visibilities == {"public", "mafia", "private", "viewer"}

FilterSend ==
    /\ pc = "filter"
    /\ send_result' = ShouldSendEvent(subscriptions[1], last_event)
    /\ pc' = "filtered"
    /\ UNCHANGED << series_status, game_status, game_winner, game_day_number,
                    db_game_players, player_ids, fixed_roles, game_players,
                    day_number, winner, stopped, mafia_target, doctor_target,
                    last_event, subscriptions, delivered >>
    /\ UNCHANGED lynchVars
    /\ UNCHANGED seriesVars
    /\ UNCHANGED reflVars
    /\ UNCHANGED harnessVars

NextFilter == FilterSend

\* Any subscription and any event.
InitFilter ==
    /\ IdleSeries
    /\ IdleRefl
    /\ IdleLoaded
    /\ IdleDay
    /\ IdleOracle
    /\ IdleCalls
    /\ series_status = "in_progress"
    /\ player_ids = Roster
    /\ fixed_roles = [p \in Range(AllPlayers) |-> NoRole]
    /\ pc = "filter"
    /\ game_status = "night"
    /\ game_winner = None
    /\ game_day_number = 1
    /\ db_game_players = << >>
    /\ game_players = << >>
    /\ day_number = 1
    /\ winner = None
    /\ stopped = FALSE
    /\ mafia_target = None
    /\ doctor_target = None
    /\ votes = << >>
    /\ vote_counts = EmptyCounts
    /\ \E vm \in BOOLEAN, id \in {None, "p1", "p2"},
          role \in Roles \cup {None} :
          subscriptions = << Subscription(vm, id, role) >>
    /\ \E vis \in Visibilities, actor \in {None, "p1", "p2"} :
          last_event = Event("event", vis, actor, None, [none |-> TRUE])
    /\ delivered = {}
    /\ send_result = FALSE

SpecFilter == InitFilter /\ [][NextFilter]_vars

----------------------------------------------------------------------------
(* get_events_for_player (db/crud.py) on a stored event, next to           *)
(* _should_send_event on the same event and subscriber                      *)

\* The query of get_game_events without viewer mode: public events only.
GetEventsForPlayerPublicOnly(events, game_id, player_id, player_role) ==
    {e \in events : e.game_id = game_id /\ e.visibility = "public"}

\* get_events_for_player: the events of the game whose visibility is in
\* 'visible' ("public", and "mafia" for the role "mafia"), or that are
\* private with the player as actor. A NULL actor equals no player id.
GetEventsForPlayer(events, game_id, player_id, player_role) ==
    LET visible == IF player_role = "mafia" THEN {"public", "mafia"}
                   ELSE {"public"}
    IN  {e \in events :
            /\ e.game_id = game_id
            /\ \/ e.visibility \in visible
               \/ /\ e.visibility = "private"
                  /\ e.actor_id # None
                  /\ e.actor_id = player_id}

\* The stored event is queried for the subscriber's player id and role, and
\* the filter of the socket is applied to the same event.
QueryAndSend ==
    /\ pc = "filter"
    /\ selected' = GetEventsForPlayer({last_event}, last_event.game_id,
                                      subscriptions[1].player_id,
                                      subscriptions[1].player_role)
    /\ send_result' = ShouldSendEvent(subscriptions[1], last_event)
    /\ pc' = "filtered"
    /\ UNCHANGED << series_status, gameVarsButPc, lynchVars, last_event,
                    subscriptions, delivered, seriesVars, reflVars, loaded,
                    dayVars, oracleVars, route, seeds, snapshot, tasks >>

NextQuery == QueryAndSend

\* Any subscriber that is not a viewer, with a player id and any role, and
\* any stored event of the game.
InitQuery ==
    /\ IdleSeries
    /\ IdleRefl
    /\ IdleLoaded
    /\ IdleDay
    /\ IdleOracle
    /\ IdleCalls
    /\ series_status = "in_progress"
    /\ player_ids = Roster
    /\ fixed_roles = [p \in Range(AllPlayers) |-> NoRole]
    /\ pc = "filter"
    /\ game_status = "night"
    /\ game_winner = None
    /\ game_day_number = 1
    /\ db_game_players = << >>
    /\ game_players = << >>
    /\ day_number = 1
    /\ winner = None
    /\ stopped = FALSE
    /\ mafia_target = None
    /\ doctor_target = None
    /\ votes = << >>
    /\ vote_counts = EmptyCounts
    /\ \E id \in {"p1", "p2", "p3"}, role \in Roles \cup {None} :
          subscriptions = << Subscription(FALSE, id, role) >>
    /\ \E vis \in Visibilities, actor \in {None, "p1", "p2", "p3"} :
          last_event = Event("event", vis, actor, None, [none |-> TRUE])
    /\ delivered = {}
    /\ send_result = FALSE

SpecQuery == InitQuery /\ [][NextQuery]_vars

----------------------------------------------------------------------------
(* assign_roles on every roster and fixed-role map *)

NextRoles == AssignRoles

InitRoles ==
    /\ series_status = "in_progress"
    /\ \E n \in RosterSizes : player_ids = SubSeq(AllPlayers, 1, n)
    /\ \E F \in SUBSET Range(player_ids) :
          /\ Cardinality(F) <= MaxFixed
          /\ \E r \in [F -> Roles] :
                fixed_roles = [p \in Range(AllPlayers) |->
                                  IF p \in F THEN r[p] ELSE NoRole]
    /\ pc = "assign"
    /\ IdleGame
    /\ IdleWs
    /\ IdleSeries
    /\ IdleRefl
    /\ IdleLoaded
    /\ IdleDay
    /\ IdleOracle
    /\ IdleCalls

SpecRoles == InitRoles /\ [][NextRoles]_vars

----------------------------------------------------------------------------
(* start_series, stop_series (api/series.py), run_series                   *)
(* (game/orchestrator.py) and the subscriptions of the series.  The game   *)
(* run by run_series is followed phase by phase; what a phase does to the  *)
(* roster is covered by Spec, here a phase only yields the result of its   *)
(* win check.                                                              *)

runVars == << pc, winner, stopped >>

unusedInSeries == << player_ids, fixed_roles, game_players, day_number,
                     game_day_number, mafia_target, doctor_target, votes,
                     vote_counts, send_result >>

\* start_series up to the status check.
StartRead ==
    /\ start_pc = "idle"
    /\ start_pc' = IF series_status # "pending" THEN "rejected" ELSE "checked"
    /\ UNCHANGED << series_status, current_game_number, game_status,
                    game_winner, db_game_players, last_event, subscriptions,
                    delivered, stop_pc, stops_left, o_pc, game_number,
                    stop_after_reflection >>
    /\ UNCHANGED runVars
    /\ UNCHANGED games_created
    /\ UNCHANGED unusedInSeries
    /\ UNCHANGED reflVars
    /\ UNCHANGED harnessVars

\* start_series after the check: the status is written and the run_series
\* task is created.
StartWrite ==
    /\ start_pc = "checked"
    /\ series_status' = "in_progress"
    /\ o_pc' = "load"
    /\ start_pc' = "done"
    /\ UNCHANGED << current_game_number, game_status, game_winner,
                    db_game_players, last_event, subscriptions, delivered,
                    stop_pc, stops_left, game_number, stop_after_reflection >>
    /\ UNCHANGED runVars
    /\ UNCHANGED games_created
    /\ UNCHANGED unusedInSeries
    /\ UNCHANGED reflVars
    /\ UNCHANGED harnessVars

\* stop_series up to the status check.
StopRead ==
    /\ stop_pc = "idle"
    /\ stops_left > 0
    /\ IF series_status # "in_progress"
       THEN stop_pc' = "idle" /\ stops_left' = stops_left - 1
       ELSE stop_pc' = "checked" /\ stops_left' = stops_left
    /\ UNCHANGED << series_status, current_game_number, game_status,
                    game_winner, db_game_players, last_event, subscriptions,
                    delivered, start_pc, o_pc, game_number,
                    stop_after_reflection >>
    /\ UNCHANGED runVars
    /\ UNCHANGED games_created
    /\ UNCHANGED unusedInSeries
    /\ UNCHANGED reflVars
    /\ UNCHANGED harnessVars

\* stop_series after the check: update_series_status(STOP_REQUESTED).
StopWrite ==
    /\ stop_pc = "checked"
    /\ series_status' = "stop_requested"
    /\ stop_pc' = "idle"
    /\ stops_left' = stops_left - 1
    /\ UNCHANGED << current_game_number, game_status, game_winner,
                    db_game_players, last_event, subscriptions, delivered,
                    start_pc, o_pc, game_number, stop_after_reflection >>
    /\ UNCHANGED runVars
    /\ UNCHANGED games_created
    /\ UNCHANGED unusedInSeries
    /\ UNCHANGED reflVars
    /\ UNCHANGED harnessVars

\* Role of the player in the game whose GamePlayer rows are 'rows'.
RoleIn(rows, id) ==
    IF \E j \in DOMAIN rows : rows[j].player_id = id
    THEN rows[CHOOSE j \in DOMAIN rows : rows[j].player_id = id].role
    ELSE None

\* The 'subscribe' message of websocket_endpoint: viewer_mode, player_id and
\* player_role are taken from the payload the client sent.
Subscribe ==
    /\ Len(subscriptions) < MaxSubs
    /\ \E vm \in BOOLEAN, id \in {None, "p1"},
          role \in {None, "mafia", "townsperson"} :
          subscriptions' =
              Append(subscriptions, Subscription(vm, id, role))
    /\ UNCHANGED << series_status, current_game_number, game_status,
                    game_winner, db_game_players, last_event, delivered,
                    start_pc, stop_pc, stops_left, o_pc, game_number,
                    stop_after_reflection >>
    /\ UNCHANGED runVars
    /\ UNCHANGED games_created
    /\ UNCHANGED unusedInSeries
    /\ UNCHANGED reflVars
    /\ UNCHANGED harnessVars

\* _emit_event / broadcast_event of an event of the series.
Emit(event) ==
    /\ last_event' = event
    /\ delivered' = BroadcastEvent(subscriptions, event)

\* run_series up to the game loop.
OLoad ==
    /\ o_pc = "load"
    /\ game_number' = 0
    /\ o_pc' = "next_game"
    /\ UNCHANGED << series_status, current_game_number, game_status,
                    game_winner, db_game_players, last_event, subscriptions,
                    delivered, start_pc, stop_pc, stops_left,
                    stop_after_reflection >>
    /\ UNCHANGED runVars
    /\ UNCHANGED games_created
    /\ UNCHANGED unusedInSeries
    /\ UNCHANGED reflVars
    /\ UNCHANGED harnessVars

\* A poll of the stop flag that never sees a request.
SeriesStopRequestedNever == FALSE

\* 'series.status == SeriesStatus.STOP_REQUESTED.value' of run_series.
SeriesStopRequested == series_status = "stop_requested"

\* Next iteration of 'for game_number in range(1, total_games + 1)' with its
\* stop check, or the end of the loop.
ONextGame ==
    /\ o_pc = "next_game"
    /\ IF game_number < TotalGames
       THEN /\ game_number' = game_number + 1
            /\ o_pc' = IF SeriesStopRequested
                       THEN "mark_stopped" ELSE "set_in_progress"
       ELSE /\ game_number' = game_number
            /\ o_pc' = "complete"
    /\ UNCHANGED << series_status, current_game_number, game_status,
                    game_winner, db_game_players, last_event, subscriptions,
                    delivered, start_pc, stop_pc, stops_left,
                    stop_after_reflection >>
    /\ UNCHANGED runVars
    /\ UNCHANGED games_created
    /\ UNCHANGED unusedInSeries
    /\ UNCHANGED reflVars
    /\ UNCHANGED harnessVars

\* _mark_series_stopped, then return.
OMarkStopped ==
    /\ o_pc = "mark_stopped"
    /\ series_status' = "stopped"
    /\ o_pc' = "returned"
    /\ UNCHANGED << current_game_number, game_status, game_winner,
                    db_game_players, last_event, subscriptions, delivered,
                    start_pc, stop_pc, stops_left, game_number,
                    stop_after_reflection >>
    /\ UNCHANGED runVars
    /\ UNCHANGED games_created
    /\ UNCHANGED unusedInSeries
    /\ UNCHANGED reflVars
    /\ UNCHANGED harnessVars

\* update_series_status(IN_PROGRESS, current_game_number=game_number)
OSetInProgress ==
    /\ o_pc = "set_in_progress"
    /\ series_status' = "in_progress"
    /\ current_game_number' = game_number
    /\ o_pc' = "create_game"
    /\ UNCHANGED << game_status, game_winner, db_game_players, last_event,
                    subscriptions, delivered, start_pc, stop_pc, stops_left,
                    game_number, stop_after_reflection >>
    /\ UNCHANGED runVars
    /\ UNCHANGED games_created
    /\ UNCHANGED unusedInSeries
    /\ UNCHANGED reflVars
    /\ UNCHANGED harnessVars

\* create_game: the Game row of game 'game_number' is stored, in phase
\* Pending and without players.
OCreateGame ==
    /\ o_pc = "create_game"
    /\ games_created' = games_created + 1
    /\ game_status' = "pending"
    /\ game_winner' = None
    /\ db_game_players' = << >>
    /\ pc' = "assign"
    /\ winner' = None
    /\ stopped' = FALSE
    /\ o_pc' = "assign_roles"
    /\ UNCHANGED << series_status, current_game_number, last_event,
                    subscriptions, delivered, start_pc, stop_pc, stops_left,
                    game_number, stop_after_reflection >>
    /\ UNCHANGED unusedInSeries
    /\ UNCHANGED reflVars
    /\ UNCHANGED harnessVars

\* assign_roles for the new game and the construction of the GameRunner; the
\* ValueError of assign_roles leaves the try block of run_series.
OAssignRoles ==
    /\ o_pc = "assign_roles"
    /\ IF Len(player_ids) \notin DOMAIN ROLE_DISTRIBUTION
       THEN /\ pc' = "error"
            /\ o_pc' = "except"
            /\ UNCHANGED db_game_players
       ELSE LET distribution ==
                    SubtractFixed(ROLE_DISTRIBUTION[Len(player_ids)],
                                  FixedItems(player_ids, fixed_roles))
            IN  IF distribution.error
                THEN /\ pc' = "error"
                     /\ o_pc' = "except"
                     /\ UNCHANGED db_game_players
                ELSE \E pool \in Shuffles(RemainingRoles(distribution.dist)) :
                        /\ db_game_players' =
                               AssignLoop(player_ids, fixed_roles, pool)
                        /\ pc' = "start"
                        /\ o_pc' = "run"
    /\ UNCHANGED << series_status, current_game_number, game_status,
                    game_winner, last_event, subscriptions, delivered,
                    start_pc, stop_pc, stops_left, game_number,
                    stop_after_reflection, winner, stopped >>
    /\ UNCHANGED games_created
    /\ UNCHANGED unusedInSeries
    /\ UNCHANGED reflVars
    /\ UNCHANGED harnessVars

\* GameRunner.run up to the game loop.
GRunStart ==
    /\ o_pc = "run"
    /\ pc = "start"
    /\ game_status' = "day"
    /\ Emit(Event("game_started", "public", None, None,
                  [player_count |-> Len(db_game_players)]))
    /\ pc' = "loop"
    /\ UNCHANGED << series_status, current_game_number, game_winner,
                    db_game_players, subscriptions, start_pc, stop_pc,
                    stops_left, o_pc, game_number, stop_after_reflection,
                    winner, stopped >>
    /\ UNCHANGED games_created
    /\ UNCHANGED unusedInSeries
    /\ UNCHANGED reflVars
    /\ UNCHANGED harnessVars

\* The stop checks of the game loop, before the day and before the night.
GCheckStop ==
    /\ o_pc = "run"
    /\ pc \in {"loop", "pre_night"}
    /\ IF CheckStopRequested
       THEN stopped' = TRUE /\ pc' = "end"
       ELSE stopped' = stopped
            /\ pc' = IF pc = "loop" THEN "day" ELSE "night"
    /\ UNCHANGED << series_status, current_game_number, game_status,
                    game_winner, db_game_players, last_event, subscriptions,
                    delivered, start_pc, stop_pc, stops_left, o_pc,
                    game_number, stop_after_reflection, winner >>
    /\ UNCHANGED games_created
    /\ UNCHANGED unusedInSeries
    /\ UNCHANGED reflVars
    /\ UNCHANGED harnessVars

\* _run_day_phase: the game row goes to Day and to Voting, the public events
\* of the day are emitted, and the win check yields w.
GDayPhase ==
    /\ o_pc = "run"
    /\ pc = "day"
    /\ game_status' = "voting"
    /\ Emit(Event("lynch_result", "public", None, None, [none |-> TRUE]))
    /\ \E w \in {None, "town", "mafia"} :
          /\ winner' = w
          /\ pc' = IF w # None THEN "end" ELSE "pre_night"
    /\ UNCHANGED << series_status, current_game_number, game_winner,
                    db_game_players, subscriptions, start_pc, stop_pc,
                    stops_left, o_pc, game_number, stop_after_reflection,
                    stopped >>
    /\ UNCHANGED games_created
    /\ UNCHANGED unusedInSeries
    /\ UNCHANGED reflVars
    /\ UNCHANGED harnessVars

\* _run_night_phase up to _mafia_kill_choice: a Mafia member of the game
\* chooses a target and MAFIA_KILL is emitted with Mafia visibility.
GMafiaKill ==
    /\ o_pc = "run"
    /\ pc = "night"
    /\ game_status' = "night"
    /\ \E i, j \in DOMAIN db_game_players :
          /\ db_game_players[i].role = "mafia"
          /\ db_game_players[j].role # "mafia"
          /\ Emit(Event("mafia_kill", "mafia", db_game_players[i].player_id,
                        db_game_players[j].player_id, [none |-> TRUE]))
    /\ pc' = "night_resolve"
    /\ UNCHANGED << series_status, current_game_number, game_winner,
                    db_game_players, subscriptions, start_pc, stop_pc,
                    stops_left, o_pc, game_number, stop_after_reflection,
                    winner, stopped >>
    /\ UNCHANGED games_created
    /\ UNCHANGED unusedInSeries
    /\ UNCHANGED reflVars
    /\ UNCHANGED harnessVars

\* The rest of _run_night_phase: NIGHT_RESULT is emitted and the win check
\* yields w.
GNightResolve ==
    /\ o_pc = "run"
    /\ pc = "night_resolve"
    /\ Emit(Event("night_result", "public", None, None, [none |-> TRUE]))
    /\ \E w \in {None, "town", "mafia"} :
          /\ winner' = w
          /\ pc' = IF w # None THEN "end" ELSE "loop"
    /\ UNCHANGED << series_status, current_game_number, game_status,
                    game_winner, db_game_players, subscriptions, start_pc,
                    stop_pc, stops_left, o_pc, game_number,
                    stop_after_reflection, stopped >>
    /\ UNCHANGED games_created
    /\ UNCHANGED unusedInSeries
    /\ UNCHANGED reflVars
    /\ UNCHANGED harnessVars

\* 'End game' of GameRunner.run.
GEndGame ==
    /\ o_pc = "run"
    /\ pc = "end"
    /\ game_status' = "completed"
    /\ game_winner' = IF winner # None THEN winner ELSE game_winner
    /\ Emit(Event("game_ended", "public", None, None,
                  [day_number |-> day_number, stopped |-> stopped,
                   winner |-> winner]))
    /\ pc' = "done"
    /\ UNCHANGED << series_status, current_game_number, db_game_players,
                    subscriptions, start_pc, stop_pc, stops_left, o_pc,
                    game_number, stop_after_reflection, winner, stopped >>
    /\ UNCHANGED games_created
    /\ UNCHANGED unusedInSeries
    /\ UNCHANGED reflVars
    /\ UNCHANGED harnessVars

\* The positions of GameRunner.run at which the next statement after the
\* update of the Game row is a call of _emit_event.
EmittingPhases == {"start", "day", "night", "end"}

\* Game.status as written just before that call of _emit_event.
StatusBeforeEmit(p) ==
    CASE p = "start" -> "day"
      [] p = "day"   -> "day"
      [] p = "night" -> "night"
      [] p = "end"   -> "completed"

\* _emit_event with a store that fails: create_game_event raises inside
\* get_db_session, which rolls back and raises again. _emit_event, the phase
\* and run (which catches GameStoppedException only) have no handler for it,
\* so the exception leaves GameRunner.run and reaches the except block of
\* run_series; the event is neither stored nor broadcast.
GEmitRaises ==
    /\ o_pc = "run"
    /\ pc \in EmittingPhases
    /\ game_status' = StatusBeforeEmit(pc)
    /\ game_winner' = IF pc = "end" /\ winner # None
                      THEN winner ELSE game_winner
    /\ pc' = "emit_raised"
    /\ o_pc' = "except"
    /\ UNCHANGED << series_status, current_game_number, db_game_players,
                    last_event, subscriptions, delivered, start_pc, stop_pc,
                    stops_left, game_number, stop_after_reflection, winner,
                    stopped >>
    /\ UNCHANGED games_created
    /\ UNCHANGED unusedInSeries
    /\ UNCHANGED reflVars
    /\ UNCHANGED harnessVars

\* A result of GameRunner.run that is never taken for 'no winner'.
NoWinnerIgnored(w) == FALSE

\* 'if winner is None' of run_series.
NoWinner(w) == w = None

\* After runner.run(): without a winner the series is to be marked stopped,
\* else the stop flag is read before the reflections.
OAfterGame ==
    /\ o_pc = "run"
    /\ pc = "done"
    /\ IF NoWinner(winner)
       THEN o_pc' = "mark_stopped"
            /\ stop_after_reflection' = stop_after_reflection
       ELSE o_pc' = "reflect"
            /\ stop_after_reflection' = SeriesStopRequested
    /\ UNCHANGED << series_status, current_game_number, game_status,
                    game_winner, db_game_players, last_event, subscriptions,
                    delivered, start_pc, stop_pc, stops_left, game_number >>
    /\ UNCHANGED runVars
    /\ UNCHANGED games_created
    /\ UNCHANGED unusedInSeries
    /\ UNCHANGED reflVars
    /\ UNCHANGED harnessVars

\* The parameters of ReflectionPipeline.__init__ (after self).
PipelineInitParams == {"series_id", "game_id", "game_number"}

\* The arguments run_reflections constructs the pipeline with: three
\* positional ones and the keyword 'broadcaster'.
PipelineInitArgs == {"series_id", "game_id", "game_number", "broadcaster"}

\* A call with an argument the constructor does not declare raises TypeError.
PipelineInitRaises == ~ (PipelineInitArgs \subseteq PipelineInitParams)

\* run_reflections as called by run_series. The construction of the
\* ReflectionPipeline comes first: when it raises, no participant's
\* reflection is started and the exception leaves the try block of
\* run_series. Otherwise the reflections of all participants run (SpecReflect
\* follows them stage by stage) and run_series goes on to the stop flag it
\* read before them.
OReflect ==
    /\ o_pc = "reflect"
    /\ IF PipelineInitRaises
       THEN /\ o_pc' = "except"
            /\ r_pc' = r_pc
       ELSE /\ o_pc' = IF stop_after_reflection
                       THEN "mark_stopped" ELSE "next_game"
            /\ r_pc' = [p \in DOMAIN r_pc |->
                           IF \E i \in DOMAIN db_game_players :
                                 db_game_players[i].player_id = p
                           THEN "returned" ELSE r_pc[p]]
    /\ UNCHANGED << series_status, current_game_number, game_status,
                    game_winner, db_game_players, last_event, subscriptions,
                    delivered, start_pc, stop_pc, stops_left, game_number,
                    stop_after_reflection >>
    /\ UNCHANGED runVars
    /\ UNCHANGED games_created
    /\ UNCHANGED unusedInSeries
    /\ UNCHANGED << cheatsheets, r_local, r_events, asof_game, asof_result >>
    /\ UNCHANGED harnessVars

\* 'Mark series complete' after the loop.  The step is not part of NextSeries:
\* every iteration of the loop ends in a return or in the exception raised by
\* the construction of the pipeline, so the end of the loop is never reached.
OComplete ==
    /\ o_pc = "complete"
    /\ series_status' = "completed"
    /\ o_pc' = "returned"
    /\ UNCHANGED << current_game_number, game_status, game_winner,
                    db_game_players, last_event, subscriptions, delivered,
                    start_pc, stop_pc, stops_left, game_number,
                    stop_after_reflection >>
    /\ UNCHANGED runVars
    /\ UNCHANGED games_created
    /\ UNCHANGED unusedInSeries
    /\ UNCHANGED reflVars
    /\ UNCHANGED harnessVars

\* An exception raised inside the try block of run_series while a game is
\* created or run (a failing store or broadcaster).
ORaise ==
    /\ \/ o_pc = "create_game"
       \/ o_pc = "run" /\ pc # "done"
    /\ pc' = IF o_pc = "run" THEN "raised" ELSE pc
    /\ o_pc' = "except"
    /\ UNCHANGED << series_status, current_game_number, game_status,
                    game_winner, db_game_players, last_event, subscriptions,
                    delivered, start_pc, stop_pc, stops_left, game_number,
                    stop_after_reflection, winner, stopped >>
    /\ UNCHANGED games_created
    /\ UNCHANGED unusedInSeries
    /\ UNCHANGED reflVars
    /\ UNCHANGED harnessVars

\* The except block of run_series: a Viewer-visibility error event, then
\* update_series_status(COMPLETED).
OExcept ==
    /\ o_pc = "except"
    /\ Emit(GameEvent(0, "error", "viewer", None, None, [phase |-> "series"]))
    /\ series_status' = "completed"
    /\ o_pc' = "returned"
    /\ UNCHANGED << current_game_number, game_status, game_winner,
                    db_game_players, subscriptions, start_pc, stop_pc,
                    stops_left, game_number, stop_after_reflection >>
    /\ UNCHANGED runVars
    /\ UNCHANGED games_created
    /\ UNCHANGED unusedInSeries
    /\ UNCHANGED reflVars
    /\ UNCHANGED harnessVars

NextSeries ==
    \/ StartRead
    \/ StartWrite
    \/ StopRead
    \/ StopWrite
    \/ Subscribe
    \/ OLoad
    \/ ONextGame
    \/ OMarkStopped
    \/ OSetInProgress
    \/ OCreateGame
    \/ OAssignRoles
    \/ GRunStart
    \/ GCheckStop
    \/ GDayPhase
    \/ GMafiaKill
    \/ GNightResolve
    \/ GEndGame
    \/ GEmitRaises
    \/ OAfterGame
    \/ OReflect
    \/ ORaise
    \/ OExcept

\* A configuration that fixes the role Mafia for two players of a roster of
\* five, whose table has one Mafia member.
OverQuotaFixedRoles ==
    [p \in Range(AllPlayers) |->
        CASE p = "p1" -> "mafia" [] p = "p2" -> "mafia" [] OTHER -> NoRole]

\* The fixed roles of the series' configuration: p1 and p2 share the roles
\* Mafia and Townsperson at random in every game.
SeriesFixedRoles ==
    [p \in Range(AllPlayers) |->
        CASE p = "p3" -> "doctor" [] p = "p4" -> "deputy"
          [] p = "p5" -> "townsperson" [] OTHER -> NoRole]

\* A series of TotalGames games just created by create_series.
InitSeries ==
    /\ series_status = "pending"
    /\ current_game_number = 0
    /\ player_ids = Roster
    /\ fixed_roles \in {SeriesFixedRoles, OverQuotaFixedRoles}
    /\ pc = "idle"
    /\ IdleGame
    /\ IdleWs
    /\ start_pc = "idle"
    /\ stop_pc = "idle"
    /\ stops_left = MaxStops
    /\ o_pc = "idle"
    /\ game_number = 0
    /\ stop_after_reflection = FALSE
    /\ games_created = 0
    /\ IdleRefl
    /\ IdleLoaded
    /\ IdleDay
    /\ IdleOracle
    /\ IdleCalls

SpecSeries == InitSeries /\ [][NextSeries]_vars

----------------------------------------------------------------------------
(* The reflection pipeline: run_reflections gathers one reflect_player     *)
(* task per participant of the game, each running run_for_player; the      *)
(* tasks interleave at their awaits. The pipeline is taken as constructed  *)
(* for the game (what its construction in run_series does is OReflect).    *)

\* The participants whose tasks are followed.
Reflecting == {Roster[i] : i \in 1..MaxReflecting}

heldInReflect == << series_status, gameVars, lynchVars, wsVars, last_event,
                    start_pc, stop_pc, stops_left, o_pc,
                    stop_after_reflection, current_game_number,
                    games_created, loaded, dayVars, oracleVars, callVars >>

\* An event of the reflection recorded for a player: its type, the status or
\* phase of its payload, the game of the pipeline and the version it names.
ReflectionEvent(type, status, version) ==
    [type |-> type, status |-> status, game |-> game_number,
     version |-> version]

\* get_latest_cheatsheet: the row of the player with the highest version.
GetLatestCheatsheet(rows) ==
    CHOOSE r \in Range(rows) : \A q \in Range(rows) : q.version <= r.version

\* create_cheatsheet_version storing the latest version again.
CreateCheatsheetVersionNoIncrement(rows, items, g) ==
    Append(rows, [version |-> IF rows = << >> THEN 0
                              ELSE GetLatestCheatsheet(rows).version,
                  items |-> items, created_after_game |-> g])

\* create_cheatsheet_version: a new row whose version is the latest + 1 (0
\* when the player has no row), tagged with the game number.
CreateCheatsheetVersion(rows, items, g) ==
    Append(rows, [version |-> IF rows = << >> THEN 0
                              ELSE GetLatestCheatsheet(rows).version + 1,
                  items |-> items, created_after_game |-> g])

\* run_for_player up to the reflector: REFLECTION_STARTED is emitted and the
\* latest cheatsheet is read.
RStart(p) ==
    /\ r_pc[p] = "idle"
    /\ LET cs_db == GetLatestCheatsheet(cheatsheets[p])
       IN  r_local' = [r_local EXCEPT ![p].current_cheatsheet =
                          [items |-> cs_db.items, version |-> cs_db.version]]
    /\ r_events' = [r_events EXCEPT ![p] =
                       @ \cup {ReflectionEvent("reflection_started", None, 0)}]
    /\ r_pc' = [r_pc EXCEPT ![p] = "reflector"]
    /\ UNCHANGED << cheatsheets, asof_game, asof_result, game_number >>
    /\ UNCHANGED heldInReflect

\* _run_reflector returns the proposed deltas.
RReflectorReturns(p) ==
    /\ r_pc[p] = "reflector"
    /\ r_local' = [r_local EXCEPT ![p].reflector_output = "deltas"]
    /\ r_pc' = [r_pc EXCEPT ![p] = "curator"]
    /\ UNCHANGED << cheatsheets, r_events, asof_game, asof_result >>
    /\ UNCHANGED << game_number, heldInReflect >>

\* The reflector's LLMError falling through to the curator.
ReflectorFailedIgnored(p) ==
    /\ r_pc' = [r_pc EXCEPT ![p] = "curator"]
    /\ r_local' = [r_local EXCEPT ![p].raised = "LLMError"]
    /\ UNCHANGED << cheatsheets, r_events >>

\* The 'except LLMError' around _run_reflector: the failed
\* REFLECTION_COMPLETED event and 'return None'.
ReflectorFailed(p) ==
    /\ r_events' = [r_events EXCEPT ![p] =
                       @ \cup {ReflectionEvent("reflection_completed",
                                               "failed", 0)}]
    /\ r_pc' = [r_pc EXCEPT ![p] = "returned"]
    /\ r_local' = [r_local EXCEPT ![p].raised = "LLMError"]
    /\ UNCHANGED cheatsheets

\* _run_reflector raises LLMError.
RReflectorLLMError(p) ==
    /\ r_pc[p] = "reflector"
    /\ ReflectorFailed(p)
    /\ UNCHANGED << asof_game, asof_result, game_number, heldInReflect >>

\* _run_curator returns the final cheatsheet, version = current version + 1.
RCuratorReturns(p) ==
    /\ r_pc[p] = "curator"
    /\ LET cur == r_local[p].current_cheatsheet
       IN  r_local' = [r_local EXCEPT
                          ![p].final_cheatsheet =
                              [items |-> Append(cur.items, game_number),
                               version |-> cur.version + 1],
                          ![p].curator_called = TRUE]
    /\ r_pc' = [r_pc EXCEPT ![p] = "persist"]
    /\ UNCHANGED << cheatsheets, r_events, asof_game, asof_result >>
    /\ UNCHANGED << game_number, heldInReflect >>

\* _run_curator raises LLMError: final_cheatsheet = current_cheatsheet.
RCuratorLLMError(p) ==
    /\ r_pc[p] = "curator"
    /\ r_local' = [r_local EXCEPT
                      ![p].final_cheatsheet = r_local[p].current_cheatsheet,
                      ![p].curator_called = TRUE,
                      ![p].raised = "LLMError"]
    /\ r_pc' = [r_pc EXCEPT ![p] = "persist"]
    /\ UNCHANGED << cheatsheets, r_events, asof_game, asof_result >>
    /\ UNCHANGED << game_number, heldInReflect >>

\* 'Persist new version' and the two events that follow it.
RPersist(p) ==
    /\ r_pc[p] = "persist"
    /\ cheatsheets' = [cheatsheets EXCEPT ![p] =
           CreateCheatsheetVersion(@, r_local[p].final_cheatsheet.items,
                                   game_number)]
    /\ LET v == r_local[p].current_cheatsheet.version + 1
       IN  r_events' = [r_events EXCEPT ![p] =
               @ \cup {ReflectionEvent("reflection_completed", "success", v),
                       ReflectionEvent("cheatsheet_updated", None, v)}]
    /\ r_pc' = [r_pc EXCEPT ![p] = "returned"]
    /\ UNCHANGED << r_local, asof_game, asof_result, game_number >>
    /\ UNCHANGED heldInReflect

\* No handler: the exception leaves the gather and ends the reflections.
CatchExceptionNotCaught(p) == [q \in DOMAIN r_pc |-> "returned"]

\* What the 'except Exception' of reflect_player does to the tasks: the
\* task of the player ends, the others go on.
CatchException(p) == [r_pc EXCEPT ![p] = "returned"]

\* A stage of run_for_player raises an exception other than LLMError (a
\* failing session, which rolls back and stores nothing, or a prompt that
\* cannot be formatted); the 'except Exception' of reflect_player records an
\* ERROR event of phase "reflection" for the player, and the task ends.
RRaise(p) ==
    /\ r_pc[p] \in {"reflector", "curator", "persist"}
    /\ r_events' = [r_events EXCEPT ![p] =
                       @ \cup {ReflectionEvent("error", "reflection", 0)}]
    /\ r_pc' = CatchException(p)
    /\ r_local' = [r_local EXCEPT ![p].raised = "Exception"]
    /\ UNCHANGED << cheatsheets, asof_game, asof_result >>
    /\ UNCHANGED << game_number, heldInReflect >>

\* The gather has returned; the reflections of the next game of the series
\* start with a new pipeline, whose events are those of the next game.
RNextGame ==
    /\ \A p \in Reflecting : r_pc[p] = "returned"
    /\ game_number < TotalGames
    /\ game_number' = game_number + 1
    /\ r_pc' = [p \in DOMAIN r_pc |-> "idle"]
    /\ r_local' = [p \in DOMAIN r_local |-> NoLocals]
    /\ r_events' = [p \in DOMAIN r_events |-> {}]
    /\ UNCHANGED << cheatsheets, asof_game, asof_result >>
    /\ UNCHANGED heldInReflect

NextReflect ==
    \/ \E p \in Reflecting : RStart(p)
    \/ \E p \in Reflecting : RReflectorReturns(p)
    \/ \E p \in Reflecting : RReflectorLLMError(p)
    \/ \E p \in Reflecting : RCuratorReturns(p)
    \/ \E p \in Reflecting : RCuratorLLMError(p)
    \/ \E p \in Reflecting : RPersist(p)
    \/ \E p \in Reflecting : RRaise(p)
    \/ RNextGame

\* Game 1 of the series has ended with a winner and its reflections are
\* about to start.
InitReflect ==
    /\ series_status = "in_progress"
    /\ player_ids = Roster
    /\ fixed_roles = SeriesFixedRoles
    /\ pc = "done"
    /\ IdleGame
    /\ IdleWs
    /\ current_game_number = 1
    /\ start_pc = "idle"
    /\ stop_pc = "idle"
    /\ stops_left = 0
    /\ o_pc = "reflect"
    /\ game_number = 1
    /\ stop_after_reflection = FALSE
    /\ games_created = 1
    /\ IdleRefl
    /\ IdleLoaded
    /\ IdleDay
    /\ IdleOracle
    /\ IdleCalls

SpecReflect == InitReflect /\ [][NextReflect]_vars

----------------------------------------------------------------------------
(* get_cheatsheet_at_game on the cheatsheet history of a player            *)

\* The player whose history is queried.
AsOfPlayer == Roster[1]

\* The history of a player whose reflections stored a version after exactly
\* the games of S: version 0 with no marker, then one row per game of S in
\* the order of the games.
History(S) ==
    [i \in 1..(Cardinality(S) + 1) |->
        IF i = 1 THEN InitialCheatsheet
        ELSE LET g == CHOOSE m \in S : Cardinality({x \in S : x < m}) = i - 2
             IN  [version |-> i - 1, items |-> << g >>,
                  created_after_game |-> g]]

\* What scalar_one_or_none returns when no row matches.
NoCheatsheet ==
    [version |-> 0 - 1, items |-> << >>, created_after_game |-> NoGame]

\* The row of rs with the highest version, NoCheatsheet when rs is empty
\* ('order by version desc limit 1').
HighestVersion(rs) ==
    IF rs = {} THEN NoCheatsheet
    ELSE CHOOSE r \in rs : \A q \in rs : q.version <= r.version

\* The query with 'created_after_game <= game_number'.
GetCheatsheetAtGameInclusive(rows, n) ==
    HighestVersion({r \in Range(rows) :
                       \/ r.created_after_game = NoGame
                       \/ r.created_after_game <= n})

\* get_cheatsheet_at_game: among the rows whose created_after_game is NULL
\* or < game_number, the one with the highest version.
GetCheatsheetAtGame(rows, n) ==
    HighestVersion({r \in Range(rows) :
                       \/ r.created_after_game = NoGame
                       \/ r.created_after_game < n})

heldInAsOf == << series_status, gameVars, lynchVars, wsVars, last_event,
                 seriesVars, cheatsheets, r_pc, r_local, r_events,
                 harnessVars >>

\* A request for the cheatsheet of the player as of game n.
AsOfQuery ==
    /\ \E n \in 1..MaxAsOf :
          /\ asof_game' = n
          /\ asof_result' = GetCheatsheetAtGame(cheatsheets[AsOfPlayer], n)
    /\ UNCHANGED heldInAsOf

NextAsOf == AsOfQuery

\* A series some of whose games were followed by a successful reflection of
\* the player.
InitAsOf ==
    /\ series_status = "in_progress"
    /\ player_ids = Roster
    /\ fixed_roles = SeriesFixedRoles
    /\ pc = "done"
    /\ IdleGame
    /\ IdleWs
    /\ IdleSeries
    /\ \E S \in SUBSET (1..(MaxAsOf - 1)) :
          cheatsheets = [p \in Range(Roster) |->
                            IF p = AsOfPlayer THEN History(S)
                            ELSE << InitialCheatsheet >>]
    /\ r_pc = [p \in Range(Roster) |-> "idle"]
    /\ r_local = [p \in Range(Roster) |-> NoLocals]
    /\ r_events = [p \in Range(Roster) |-> {}]
    /\ asof_game = NoGame
    /\ asof_result = InitialCheatsheet
    /\ IdleLoaded
    /\ IdleDay
    /\ IdleOracle
    /\ IdleCalls

SpecAsOf == InitAsOf /\ [][NextAsOf]_vars

----------------------------------------------------------------------------
(* The decision points of the runner: _player_speech, _player_vote,        *)
(* _mafia_kill_choice, _doctor_save_choice and _deputy_investigate_choice,  *)
(* each on what complete_json can return or raise                           *)

LLMTimeoutError == << "LLMTimeoutError", "exact" >>

LLMParseError == << "LLMParseError", "exact" >>

\* The exceptions complete_json can raise: the last_error of its loop.
OracleErrors == {LLMError, LLMTimeoutError, LLMParseError}

\* A handler that catches timeouts only.
CaughtAsTimeoutOnly(e) == e = LLMTimeoutError

\* 'except LLMError' of a decision point: LLMError and its subclasses
\* LLMTimeoutError and LLMParseError.
CaughtAsLLMError(e) == e \in {LLMError, LLMTimeoutError, LLMParseError}

\* The content of a speech the oracle returns.
OracleSpeech == << "speech", "exact" >>

\* content = "I have nothing to add at this time."
FallbackSpeech == << "I have nothing to add at this time.", "exact" >>

DecisionKinds == {"speech", "vote", "mafia_kill", "doctor_save",
                  "deputy_investigate"}

\* The first living player of the role, 0 when there is none.
FirstAlive(gps, role) ==
    IF \E i \in DOMAIN gps : gps[i].is_alive /\ gps[i].role = role
    THEN CHOOSE i \in DOMAIN gps :
            /\ gps[i].is_alive /\ gps[i].role = role
            /\ \A j \in DOMAIN gps :
                  (gps[j].is_alive /\ gps[j].role = role) => i <= j
    ELSE 0

\* The players that can be at a decision point of the kind.
Actors(gps, kind) ==
    CASE kind \in {"speech", "vote"} ->
             {i \in DOMAIN gps : gps[i].is_alive}
      [] kind = "mafia_kill" -> {FirstAlive(gps, "mafia")} \ {0}
      [] kind = "doctor_save" -> {FirstAlive(gps, "doctor")} \ {0}
      [] kind = "deputy_investigate" -> {FirstAlive(gps, "deputy")} \ {0}

\* What complete_json can hand to a decision point: a response that parsed
\* (a speech; for a choice a name in some spelling, "no_lynch" or a string
\* that names nobody), or one of its exceptions.
OracleOutcomes(gps, kind) ==
    (IF kind = "speech" THEN {OracleSpeech}
     ELSE {<< gps[i].player_id, sp >> : i \in DOMAIN gps, sp \in Spellings}
              \cup {NO_LYNCH, << "nobody", "exact" >>})
        \cup OracleErrors

\* valid_targets taken as the names of all the living players.
ValidTargetsAnyAlive(gps, kind, actor) == AliveNames(gps)

\* valid_targets (alive_names for a vote) of the decision point.
ValidTargets(gps, kind, actor) ==
    CASE kind = "vote" -> AliveNames(gps) \ {Name(gps[actor])}
      [] kind = "mafia_kill" ->
             {Name(p) : p \in {q \in Range(AlivePlayers(gps)) :
                                  q.role # "mafia"}}
      [] kind = "doctor_save" -> AliveNames(gps)
      [] kind = "deputy_investigate" ->
             AliveNames(gps) \ {Name(gps[actor])}
      [] OTHER -> {}

\* The choices self.random.choice draws from when the answer is replaced.
RandomChoices(gps, kind, actor) ==
    IF kind = "vote" THEN ValidTargets(gps, kind, actor) \cup {NO_LYNCH}
    ELSE ValidTargets(gps, kind, actor)

\* The validation of a parsed answer: a vote must be "no_lynch" or name
\* (in any letter case) a living player other than the voter; a night target
\* must be one of the strings of valid_targets.
AnswerValid(gps, kind, actor, a) ==
    IF kind = "vote"
    THEN \/ a = NO_LYNCH
         \/ /\ GetPlayerByName(gps, a) # 0
            /\ gps[GetPlayerByName(gps, a)].is_alive
            /\ GetPlayerByName(gps, a) # actor
    ELSE a \in ValidTargets(gps, kind, actor)

\* The values the decision point can end with when complete_json returned
\* or raised a, and the exception is handled.
DecisionResults(gps, kind, actor, a) ==
    IF kind = "speech"
    THEN IF a \in OracleErrors THEN {FallbackSpeech} ELSE {a}
    ELSE IF a \notin OracleErrors /\ AnswerValid(gps, kind, actor, a)
         THEN {a}
         ELSE RandomChoices(gps, kind, actor)

heldInDecision == << series_status, game_status, game_winner,
                     game_day_number, db_game_players, player_ids,
                     fixed_roles, game_players, day_number, winner, stopped,
                     mafia_target, doctor_target, lynchVars, wsVars,
                     last_event, seriesVars, reflVars, loaded, dayVars,
                     attempt, last_error, llm_result, callVars >>

\* The decision point runs on the outcome of its oracle call: an exception
\* its handler does not catch leaves it, otherwise it ends with a value.
Decide ==
    /\ pc = "decide"
    /\ LET a == decision.answer
       IN  IF a \in OracleErrors /\ ~ CaughtAsLLMError(a)
           THEN /\ decision' = [decision EXCEPT !.raised = TRUE]
                /\ pc' = "raised"
           ELSE /\ \E r \in DecisionResults(game_players, decision.kind,
                                           decision.actor, a) :
                      decision' = [decision EXCEPT !.result = r]
                /\ pc' = "decided"
    /\ UNCHANGED heldInDecision

NextDecision == Decide

\* A running game of five with at most two players dead, one of its players
\* at a decision point, and any outcome of the oracle call.
InitDecision ==
    /\ IdleSeries
    /\ IdleRefl
    /\ IdleLoaded
    /\ IdleDay
    /\ series_status = "in_progress"
    /\ player_ids = Roster
    /\ fixed_roles = [p \in Range(AllPlayers) |-> NoRole]
    /\ pc = "decide"
    /\ game_winner = None
    /\ \E dead \in SUBSET (1..5) :
          /\ Cardinality(dead) <= 2
          /\ db_game_players = RowsWithDead(dead)
          /\ day_number = IF dead = {} THEN 1 ELSE 2
    /\ game_day_number = day_number
    /\ game_players = LoadGamePlayers(db_game_players)
    /\ CheckWinCondition(game_players) = None
    /\ winner = None
    /\ stopped = FALSE
    /\ mafia_target = None
    /\ doctor_target = None
    /\ last_event = Event("day_started", "public", None, None,
                          [day_number |-> day_number])
    /\ votes = << >>
    /\ vote_counts = EmptyCounts
    /\ IdleWs
    /\ attempt = 0
    /\ last_error = NoError
    /\ llm_result = NoCall
    /\ IdleCalls
    /\ \E kind \in DecisionKinds :
          /\ game_status = IF kind = "speech" THEN "day"
                           ELSE IF kind = "vote" THEN "voting" ELSE "night"
          /\ \E actor \in Actors(game_players, kind),
                a \in OracleOutcomes(game_players, kind) :
                decision = [kind |-> kind, actor |-> actor, answer |-> a,
                            raised |-> FALSE, result |-> NoDecision.result]

SpecDecision == InitDecision /\ [][NextDecision]_vars

----------------------------------------------------------------------------
(* LLMClient.complete_json (game/llm.py): the retry loop around            *)
(* LLMClient.complete, which bounds every oracle call by a timeout          *)

MaxRetries == 2

DEFAULT_TIMEOUT_SECONDS == 60

LLM_MAX_RETRIES == 2

\* What complete_json returns: the response parsed and validated.
Parsed == << "parsed", "exact" >>

\* range(max_retries + 2).
AttemptsRangeOneMore(max_retries) == 0..(max_retries + 1)

\* range(max_retries + 1): the values of 'attempt'.
AttemptsRange(max_retries) == 0..max_retries

\* The seconds an attempt can take when asyncio.wait_for does not cut it.
Durations(timeout) == {1, timeout - 1}

\* The state of the call after an attempt that took d seconds.
AfterAttempt(d) ==
    [llm_result EXCEPT !.calls = @ + 1,
                       !.longest = IF d > @ THEN d ELSE @]

\* The loop after a failed attempt: the delay when 'attempt < max_retries',
\* the next value of the range when there is one, else the end of the loop.
AfterFailure ==
    IF attempt < llm_result.max_retries THEN "sleep"
    ELSE IF attempt + 1 \in AttemptsRange(llm_result.max_retries)
         THEN "attempt"
         ELSE "after_loop"

\* complete returns in time and _parse_json_response accepts the text:
\* complete_json returns the parsed response.
CJReturns ==
    /\ o_pc = "attempt"
    /\ \E d \in Durations(llm_result.timeout) :
          llm_result' = [AfterAttempt(d) EXCEPT !.result = Parsed]
    /\ o_pc' = "returned"
    /\ UNCHANGED << attempt, last_error, game_number, start_pc, stop_pc,
                    stops_left, stop_after_reflection, current_game_number,
                    games_created >>
    /\ UNCHANGED << series_status, gameVars, lynchVars, wsVars, last_event,
                    reflVars, loaded, dayVars, decision, callVars >>

\* asyncio.wait_for cuts the attempt at the timeout: complete raises
\* LLMTimeoutError, which the loop records.
CJTimeout ==
    /\ o_pc = "attempt"
    /\ llm_result' = AfterAttempt(llm_result.timeout)
    /\ last_error' = LLMTimeoutError
    /\ o_pc' = AfterFailure
    /\ attempt' = IF AfterFailure = "attempt" THEN attempt + 1 ELSE attempt
    /\ UNCHANGED << game_number, start_pc, stop_pc, stops_left,
                    stop_after_reflection, current_game_number,
                    games_created >>
    /\ UNCHANGED << series_status, gameVars, lynchVars, wsVars, last_event,
                    reflVars, loaded, dayVars, decision, callVars >>

\* complete returns in time and the text does not parse or validate
\* (LLMParseError), or the provider call raises (any other exception,
\* recorded as LLMError).
CJFails ==
    /\ o_pc = "attempt"
    /\ \E d \in Durations(llm_result.timeout) :
          llm_result' = AfterAttempt(d)
    /\ \E e \in {LLMParseError, LLMError} : last_error' = e
    /\ o_pc' = AfterFailure
    /\ attempt' = IF AfterFailure = "attempt" THEN attempt + 1 ELSE attempt
    /\ UNCHANGED << game_number, start_pc, stop_pc, stops_left,
                    stop_after_reflection, current_game_number,
                    games_created >>
    /\ UNCHANGED << series_status, gameVars, lynchVars, wsVars, last_event,
                    reflVars, loaded, dayVars, decision, callVars >>

\* asyncio.sleep(0.5) is over: the next attempt, or the end of the loop.
CJSleep ==
    /\ o_pc = "sleep"
    /\ IF attempt + 1 \in AttemptsRange(llm_result.max_retries)
       THEN /\ attempt' = attempt + 1
            /\ o_pc' = "attempt"
       ELSE /\ o_pc' = "after_loop"
            /\ UNCHANGED attempt
    /\ UNCHANGED << llm_result, last_error, game_number, start_pc, stop_pc,
                    stops_left, stop_after_reflection, current_game_number,
                    games_created >>
    /\ UNCHANGED << series_status, gameVars, lynchVars, wsVars, last_event,
                    reflVars, loaded, dayVars, decision, callVars >>

\* 'raise last_error or LLMError("Unknown error")'.
CJRaises ==
    /\ o_pc = "after_loop"
    /\ llm_result' = [llm_result EXCEPT !.result =
                          IF last_error = NoError THEN LLMError
                          ELSE last_error]
    /\ o_pc' = "raised"
    /\ UNCHANGED << attempt, last_error, game_number, start_pc, stop_pc,
                    stops_left, stop_after_reflection, current_game_number,
                    games_created >>
    /\ UNCHANGED << series_status, gameVars, lynchVars, wsVars, last_event,
                    reflVars, loaded, dayVars, decision, callVars >>

NextOracle ==
    \/ CJReturns
    \/ CJTimeout
    \/ CJFails
    \/ CJSleep
    \/ CJRaises

\* A call of complete_json with any max_retries (the setting when none is
\* given) and any timeout (the setting when none or 0 is given).
InitOracle ==
    /\ series_status = "in_progress"
    /\ player_ids = Roster
    /\ fixed_roles = SeriesFixedRoles
    /\ pc = "day"
    /\ IdleGame
    /\ IdleWs
    /\ current_game_number = 1
    /\ start_pc = "idle"
    /\ stop_pc = "idle"
    /\ stops_left = 0
    /\ game_number = 1
    /\ stop_after_reflection = FALSE
    /\ games_created = 1
    /\ IdleRefl
    /\ IdleLoaded
    /\ IdleDay
    /\ IdleCalls
    /\ attempt = 0
    /\ last_error = NoError
    /\ decision = NoDecision
    /\ \E given \in BOOLEAN, m \in (0 - 1)..MaxRetries,
          t \in {0, 5, DEFAULT_TIMEOUT_SECONDS} :
          llm_result = [max_retries |-> IF given THEN m ELSE LLM_MAX_RETRIES,
                        timeout |-> IF t = 0 THEN DEFAULT_TIMEOUT_SECONDS
                                    ELSE t,
                        calls |-> 0, longest |-> 0, result |-> NoError]
    /\ o_pc = IF 0 \in AttemptsRange(llm_result.max_retries) THEN "attempt"
              ELSE "after_loop"

\* Every await of the loop completes: wait_for within the timeout, the
\* sleep after half a second.
SpecOracle == InitOracle /\ [][NextOracle]_vars /\ WF_vars(NextOracle)

----------------------------------------------------------------------------
(* The cheatsheet a game runs with: _load_game_players reads the latest    *)
(* version of every player when the game starts, the reflections of the    *)
(* game store new versions after it, and get_cheatsheet_at_game is asked    *)
(* for the games started so far                                             *)

\* cs_schema of _load_game_players: the items and the version of a row.
CsSchema(row) == [items |-> row.items, version |-> row.version]

heldInLoaded == << series_status, gameVars, lynchVars, wsVars, last_event,
                   start_pc, stop_pc, stops_left, stop_after_reflection,
                   current_game_number, games_created, r_local, r_events,
                   dayVars, oracleVars, callVars >>

\* _load_game_players at the start of the game: the latest cheatsheet of
\* every player is read into the cache of the runner.
LLoadGamePlayers ==
    /\ o_pc = "run"
    /\ loaded' = [p \in DOMAIN loaded |->
                     Append(loaded[p],
                            CsSchema(GetLatestCheatsheet(cheatsheets[p])))]
    /\ o_pc' = "game"
    /\ UNCHANGED << cheatsheets, r_pc, asof_game, asof_result, game_number >>
    /\ UNCHANGED heldInLoaded

\* The game ends with a winner and its reflections start.
LGameWon ==
    /\ o_pc = "game"
    /\ o_pc' = "reflect"
    /\ UNCHANGED << cheatsheets, r_pc, loaded, asof_game, asof_result,
                    game_number >>
    /\ UNCHANGED heldInLoaded

\* The game is stopped: no reflection, the series ends.
LGameStopped ==
    /\ o_pc = "game"
    /\ o_pc' = "done"
    /\ UNCHANGED << cheatsheets, r_pc, loaded, asof_game, asof_result,
                    game_number >>
    /\ UNCHANGED heldInLoaded

\* The reflection of the player stores a version: the curated items, or the
\* items of the latest version again when the curator failed.
LReflectionStores(p) ==
    /\ o_pc = "reflect"
    /\ r_pc[p] = "idle"
    /\ \E items \in {GetLatestCheatsheet(cheatsheets[p]).items,
                     Append(GetLatestCheatsheet(cheatsheets[p]).items,
                            game_number)} :
          cheatsheets' = [cheatsheets EXCEPT ![p] =
                             CreateCheatsheetVersion(@, items, game_number)]
    /\ r_pc' = [r_pc EXCEPT ![p] = "returned"]
    /\ UNCHANGED << loaded, asof_game, asof_result, game_number, o_pc >>
    /\ UNCHANGED heldInLoaded

\* The reflection of the player ends without a version (the reflector
\* failed, or an exception was recorded).
LReflectionSkipped(p) ==
    /\ o_pc = "reflect"
    /\ r_pc[p] = "idle"
    /\ r_pc' = [r_pc EXCEPT ![p] = "returned"]
    /\ UNCHANGED << cheatsheets, loaded, asof_game, asof_result, game_number,
                    o_pc >>
    /\ UNCHANGED heldInLoaded

\* The reflections have returned: the next game, or the end of the series.
LNextGame ==
    /\ o_pc = "reflect"
    /\ \A p \in Reflecting : r_pc[p] = "returned"
    /\ IF game_number < TotalGames
       THEN /\ game_number' = game_number + 1
            /\ r_pc' = [p \in DOMAIN r_pc |-> "idle"]
            /\ o_pc' = "run"
       ELSE /\ o_pc' = "done"
            /\ UNCHANGED << game_number, r_pc >>
    /\ UNCHANGED << cheatsheets, loaded, asof_game, asof_result >>
    /\ UNCHANGED heldInLoaded

\* A request, at any time, for the cheatsheet of the player as of a game
\* that has started.
LAsOfQuery ==
    /\ \E n \in 1..Len(loaded[AsOfPlayer]) :
          /\ asof_game' = n
          /\ asof_result' = GetCheatsheetAtGame(cheatsheets[AsOfPlayer], n)
    /\ UNCHANGED << cheatsheets, loaded, r_pc, game_number, o_pc >>
    /\ UNCHANGED heldInLoaded

NextLoaded ==
    \/ LLoadGamePlayers
    \/ LGameWon
    \/ LGameStopped
    \/ \E p \in Reflecting : LReflectionStores(p)
    \/ \E p \in Reflecting : LReflectionSkipped(p)
    \/ LNextGame
    \/ LAsOfQuery

\* Game 1 of the series is about to load its players.
InitLoaded ==
    /\ series_status = "in_progress"
    /\ player_ids = Roster
    /\ fixed_roles = SeriesFixedRoles
    /\ pc = "done"
    /\ IdleGame
    /\ IdleWs
    /\ current_game_number = 1
    /\ start_pc = "idle"
    /\ stop_pc = "idle"
    /\ stops_left = 0
    /\ o_pc = "run"
    /\ game_number = 1
    /\ stop_after_reflection = FALSE
    /\ games_created = 1
    /\ IdleRefl
    /\ IdleLoaded
    /\ IdleDay
    /\ IdleOracle
    /\ IdleCalls

SpecLoaded == InitLoaded /\ [][NextLoaded]_vars

----------------------------------------------------------------------------
(* route_after_agent (agent_loop/graph/orchestrator.py) on every state of  *)
(* the agent loop                                                           *)

MaxIterations == 3

MIN_RESPONSE_LENGTH == 10

\* The attributes of AgentState: its fields; the class defines no property.
AgentStateAttributes ==
    {"messages", "task", "response", "iteration", "max_iterations",
     "evaluations", "rankings"}

\* What reading an attribute the model does not have raises.
AttributeError == "AttributeError"

\* The limit test decider_node makes on the same state.
IsIterationLimitReached(state) == state.iteration >= state.max_iterations

\* _is_complete_response of the last message: an AI message without tool
\* calls whose content has at least MIN_RESPONSE_LENGTH characters.
IsCompleteResponse(state) ==
    /\ state.is_ai
    /\ ~ state.tool_calls
    /\ state.content_len >= MIN_RESPONSE_LENGTH

\* route_after_agent: it first reads state.is_iteration_limit_reached,
\* which raises when AgentState has no such attribute; at the limit it
\* returns "evaluator", below it "tools" for an AI message with tool calls
\* and "evaluator" otherwise.
RouteAfterAgent(state) ==
    IF "is_iteration_limit_reached" \notin AgentStateAttributes
    THEN AttributeError
    ELSE IF IsIterationLimitReached(state) THEN "evaluator"
    ELSE IF state.is_ai /\ state.tool_calls THEN "tools"
    ELSE "evaluator"

\* The lengths of the content of the last message.
ContentLengths ==
    {0, 2, MIN_RESPONSE_LENGTH - 1, MIN_RESPONSE_LENGTH,
     MIN_RESPONSE_LENGTH + 1}

\* The conditional edge after the agent node is evaluated.
RouteAfterAgentCall ==
    /\ pc = "route"
    /\ route' = [route EXCEPT !.result = RouteAfterAgent(route)]
    /\ pc' = "routed"
    /\ UNCHANGED << series_status, gameVarsButPc, lynchVars, wsVars,
                    last_event, seriesVars, reflVars, loaded, dayVars,
                    oracleVars, selected, seeds,
                    snapshot, tasks >>

NextRoute == RouteAfterAgentCall

\* Any iteration count and limit, and any last message.
InitRoute ==
    /\ series_status = "pending"
    /\ player_ids = Roster
    /\ fixed_roles = SeriesFixedRoles
    /\ pc = "route"
    /\ IdleGame
    /\ IdleWs
    /\ IdleSeries
    /\ IdleRefl
    /\ IdleLoaded
    /\ IdleDay
    /\ IdleOracle
    /\ selected = {}
    /\ seeds = NoSeeds
    /\ snapshot = NoSnapshot
    /\ tasks = NoTasks
    /\ \E i \in 0..MaxIterations, m \in 1..MaxIterations, ai \in BOOLEAN,
          tc \in BOOLEAN, len \in ContentLengths :
          route = [iteration |-> i, max_iterations |-> m, is_ai |-> ai,
                   tool_calls |-> tc, content_len |-> len, result |-> None]

SpecRoute == InitRoute /\ [][NextRoute]_vars

----------------------------------------------------------------------------
(* The seeds of the games of a series: run_series derives game_seed from   *)
(* series.random_seed and hands it to assign_roles and to the runner        *)

MaxSeed == 3

MaxEntropy == 1

\* The seed None.
NoSeed == [given |-> FALSE, value |-> 0]

\* An integer seed.
Seed(v) == [given |-> TRUE, value |-> v]

\* 'base_seed + game_number if base_seed else None': the test is the truth
\* value of base_seed, false for None and for 0.
GameSeed(base, n) ==
    IF base.given /\ base.value # 0 THEN Seed(base.value + n) ELSE NoSeed

\* random.Random(seed): the generator is determined by an integer seed;
\* with None it is seeded from the entropy of the system.
RandomStates(seed) ==
    IF seed.given THEN {[seeded |-> TRUE, state |-> seed.value]}
    ELSE {[seeded |-> FALSE, state |-> e] : e \in 0..MaxEntropy}

\* No generator has been made.
NoRandom == [seeded |-> FALSE, state |-> 0 - 1]

heldInSeeds == << series_status, gameVars, lynchVars, wsVars, last_event,
                  start_pc, stop_pc, stops_left, stop_after_reflection,
                  current_game_number, games_created, reflVars, loaded,
                  dayVars, oracleVars, selected, route,
                  snapshot, tasks >>

\* The seed of the game is computed and stored with the game.
SCreateGame ==
    /\ o_pc = "create"
    /\ seeds' = [seeds EXCEPT !.games =
                    Append(@, [game_seed |-> GameSeed([given |-> seeds.has_seed,
                                                       value |-> seeds.base_seed],
                                                      game_number),
                               roles_rng |-> NoRandom,
                               runner_rng |-> NoRandom])]
    /\ o_pc' = "assign"
    /\ UNCHANGED game_number
    /\ UNCHANGED heldInSeeds

\* assign_roles makes its generator from the seed of the game.
SAssignRoles ==
    /\ o_pc = "assign"
    /\ \E r \in RandomStates(seeds.games[game_number].game_seed) :
          seeds' = [seeds EXCEPT !.games[game_number].roles_rng = r]
    /\ o_pc' = "runner"
    /\ UNCHANGED game_number
    /\ UNCHANGED heldInSeeds

\* GameRunner.__init__ makes self.random from the seed of the game; the
\* loop goes on to the next game.
SCreateRunner ==
    /\ o_pc = "runner"
    /\ \E r \in RandomStates(seeds.games[game_number].game_seed) :
          seeds' = [seeds EXCEPT !.games[game_number].runner_rng = r]
    /\ IF game_number < TotalGames
       THEN /\ game_number' = game_number + 1
            /\ o_pc' = "create"
       ELSE /\ o_pc' = "done"
            /\ UNCHANGED game_number
    /\ UNCHANGED heldInSeeds

NextSeeds ==
    \/ SCreateGame
    \/ SAssignRoles
    \/ SCreateRunner

\* A series with any base seed, or with none, about to create game 1.
InitSeeds ==
    /\ series_status = "in_progress"
    /\ player_ids = Roster
    /\ fixed_roles = SeriesFixedRoles
    /\ pc = "done"
    /\ IdleGame
    /\ IdleWs
    /\ current_game_number = 1
    /\ start_pc = "idle"
    /\ stop_pc = "idle"
    /\ stops_left = 0
    /\ o_pc = "create"
    /\ game_number = 1
    /\ stop_after_reflection = FALSE
    /\ games_created = 0
    /\ IdleRefl
    /\ IdleLoaded
    /\ IdleDay
    /\ IdleOracle
    /\ selected = {}
    /\ route = NoRoute
    /\ snapshot = NoSnapshot
    /\ tasks = NoTasks
    /\ \E has \in BOOLEAN, b \in (0 - MaxSeed)..MaxSeed :
          seeds = [has_seed |-> has, base_seed |-> IF has THEN b ELSE 0,
                   games |-> << >>]

SpecSeeds == InitSeeds /\ [][NextSeeds]_vars

----------------------------------------------------------------------------
(* The speeches of a day: _run_day_phase empties self._day_discussion,     *)
(* shuffles the living players and awaits _player_speech for each, which    *)
(* builds the prompt from the buffer and then appends the speech            *)

\* The buffer left as it is.
ResetDiscussionKept(discussion) == discussion

\* 'self._day_discussion = []'.
ResetDiscussion(discussion) == << >>

\* The names of the living players, in the order of the cache.
AliveNameList(gps) ==
    [i \in DOMAIN AlivePlayers(gps) |-> Name(AlivePlayers(gps)[i])]

\* The line '{name}: {content}' appended to the buffer.
DiscussionLine(name, content) == << name, content >>

heldInDay == << series_status, game_status, game_winner, game_day_number,
                db_game_players, player_ids, fixed_roles, winner, stopped,
                mafia_target, doctor_target, lynchVars, wsVars, last_event,
                seriesVars, reflVars, loaded, oracleVars, callVars >>

\* _run_day_phase up to the loop of the speeches: the buffer is emptied and
\* the speaking order is a shuffle of the living players.
SDayStart ==
    /\ pc = "day"
    /\ day_discussion' = ResetDiscussion(day_discussion)
    /\ speaking_order' \in Shuffles(AliveNameList(game_players))
    /\ prompts' = << >>
    /\ pc' = "speeches"
    /\ UNCHANGED << game_players, day_number >>
    /\ UNCHANGED heldInDay

\* _player_speech of the next player of the order, up to the oracle call:
\* the prompt is built from the buffer as it is now.
SPrompt ==
    /\ pc = "speeches"
    /\ Len(prompts) < Len(speaking_order)
    /\ prompts' = Append(prompts,
                         [speaker |-> speaking_order[Len(prompts) + 1],
                          discussion |-> day_discussion,
                          content |-> NoError,
                          day |-> day_number])
    /\ pc' = "speaking"
    /\ UNCHANGED << game_players, day_number, day_discussion,
                    speaking_order >>
    /\ UNCHANGED heldInDay

\* The oracle call is over: the speech, or the fallback line when it
\* failed, is appended to the buffer and emitted.
SSpeech ==
    /\ pc = "speaking"
    /\ \E content \in {OracleSpeech, FallbackSpeech} :
          /\ day_discussion' =
                 Append(day_discussion,
                        DiscussionLine(prompts[Len(prompts)].speaker,
                                       content))
          /\ prompts' = [prompts EXCEPT ![Len(prompts)].content = content]
    /\ pc' = "speeches"
    /\ UNCHANGED << game_players, day_number, speaking_order >>
    /\ UNCHANGED heldInDay

\* The loop of the speeches is over: the votes follow.
SSpeechesDone ==
    /\ pc = "speeches"
    /\ Len(prompts) = Len(speaking_order)
    /\ pc' = "voting"
    /\ UNCHANGED << game_players, day_number, dayVars >>
    /\ UNCHANGED heldInDay

NextSpeeches ==
    \/ SDayStart
    \/ SPrompt
    \/ SSpeech
    \/ SSpeechesDone

\* The buffer the day before left: the lines of the five players of day 1,
\* all speeches of the oracle or all fallback lines.
DayBefore(gps) ==
    {[i \in DOMAIN gps |-> DiscussionLine(Name(gps[i]), content)] :
        content \in {OracleSpeech, FallbackSpeech}}

\* Day 1 of a game of five is about to start with an empty buffer, or day 2
\* with at most two players eliminated, nobody the winner, and the buffer
\* as day 1 left it.
InitSpeeches ==
    /\ IdleSeries
    /\ IdleRefl
    /\ IdleLoaded
    /\ IdleOracle
    /\ IdleCalls
    /\ series_status = "in_progress"
    /\ player_ids = Roster
    /\ fixed_roles = [p \in Range(AllPlayers) |-> NoRole]
    /\ pc = "day"
    /\ game_status = "day"
    /\ game_winner = None
    /\ \E dead \in SUBSET (1..5) :
          /\ Cardinality(dead) <= 2
          /\ db_game_players = RowsWithDead(dead)
    /\ game_players = LoadGamePlayers(db_game_players)
    /\ CheckWinCondition(game_players) = None
    /\ \/ /\ \A i \in DOMAIN game_players : game_players[i].is_alive
          /\ day_number = 1
          /\ day_discussion = << >>
       \/ /\ day_number = 2
          /\ day_discussion \in DayBefore(game_players)
    /\ game_day_number = day_number
    /\ speaking_order = << >>
    /\ prompts = << >>
    /\ winner = None
    /\ stopped = FALSE
    /\ mafia_target = None
    /\ doctor_target = None
    /\ last_event = NoEvent
    /\ votes = << >>
    /\ vote_counts = EmptyCounts
    /\ IdleWs

SpecSpeeches == InitSpeeches /\ [][NextSpeeches]_vars

----------------------------------------------------------------------------
(* Properties *)

AliveMafia == {i \in DOMAIN game_players :
                  game_players[i].is_alive /\ game_players[i].role = "mafia"}

AliveTown == {i \in DOMAIN game_players :
                 game_players[i].is_alive /\ game_players[i].role # "mafia"}

\* C1: the win check returns Town iff no Mafia member is alive, Mafia iff at
\* least one is alive and the living Mafia are at least as many as the living
\* non-Mafia, and None exactly in the remaining case; the three outcomes are
\* mutually exclusive and exhaustive.
WinConditionTotal ==
    pc = "checked" =>
        LET m == Cardinality(AliveMafia)
            t == Cardinality(AliveTown)
        IN  /\ winner \in {"town", "mafia", None}
            /\ (winner = "town") <=> (m = 0)
            /\ (winner = "mafia") <=> (m > 0 /\ m >= t)
            /\ (winner = None) <=> (m > 0 /\ m < t)

WinConditionTotalWitness ==
    /\ pc = "checked"
    /\ winner = "mafia"
    /\ Cardinality(AliveMafia) = 2
    /\ Cardinality(AliveTown) = 2

\* Number of ballots of the votes dict that are the string b.
BallotsFor(b) == Cardinality({id \in DOMAIN votes : votes[id] = b})

\* The ballots with the highest count.
Leaders ==
    {b \in Range(votes) : \A c \in Range(votes) : BallotsFor(c) <= BallotsFor(b)}

RosterUnchanged ==
    /\ game_players' = game_players
    /\ db_game_players' = db_game_players

\* Player i, and nobody else, is marked dead with the given cause on the
\* current day.
OnlyEliminated(i, cause) ==
    /\ ~ game_players'[i].is_alive
    /\ db_game_players'[i] =
           [db_game_players[i] EXCEPT !.is_alive = FALSE,
                                      !.eliminated_day = day_number,
                                      !.elimination_type = cause]
    /\ \A j \in DOMAIN game_players \ {i} :
          /\ game_players'[j] = game_players[j]
          /\ db_game_players'[j] = db_game_players[j]
    /\ DOMAIN game_players' = DOMAIN game_players
    /\ DOMAIN db_game_players' = DOMAIN db_game_players

\* C2: lynch resolution eliminates a player iff exactly one ballot string
\* holds the highest count and it is not no_lynch; then exactly the player it
\* names is marked dead, cause lynched, day = current day; otherwise (a tie
\* for the top count, or no_lynch alone on top) nobody is eliminated.
LynchResolution ==
    [][pc = "resolve" =>
          IF Cardinality(Leaders) = 1 /\ Leaders # {NO_LYNCH}
          THEN \E i \in DOMAIN game_players :
                  /\ \A b \in Leaders : b[1] = game_players[i].player_id
                  /\ OnlyEliminated(i, "lynched")
          ELSE RosterUnchanged]_vars

LynchResolutionWitness ==
    /\ pc = "resolved"
    /\ last_event.type = "lynch_result"
    /\ last_event.target_id = "p3"
    /\ << "p3", "recased" >> \in DOMAIN vote_counts
    /\ vote_counts[<< "p3", "recased" >>] = 2
    /\ NO_LYNCH \in DOMAIN vote_counts
    /\ Cardinality(DOMAIN vote_counts) = 4

\* C3: in night resolution nobody dies when the mafia's target is the
\* doctor's target; otherwise the mafia's target, if alive, is marked dead
\* with cause killed and day = current day; no other player changes.
NightResolution ==
    [][pc = "night" =>
          IF mafia_target' = doctor_target' \/ mafia_target' = None
          THEN RosterUnchanged
          ELSE \E i \in DOMAIN game_players :
                  /\ game_players[i].player_id = mafia_target'
                  /\ IF game_players[i].is_alive
                     THEN OnlyEliminated(i, "killed")
                     ELSE RosterUnchanged]_vars

NightResolutionWitness ==
    /\ last_event.type = "night_result"
    /\ mafia_target # None
    /\ doctor_target # None
    /\ mafia_target # doctor_target
    /\ last_event.target_id = mafia_target
    /\ \E i \in DOMAIN db_game_players :
          /\ db_game_players[i].player_id = mafia_target
          /\ db_game_players[i].elimination_type = "killed"
          /\ db_game_players[i].eliminated_day = 2

\* C4 as stated: every change of the persisted phase is Pending->Day,
\* Day->Voting, Voting->Night, Night->Day or Night->Completed.
PhaseOrderAsStated ==
    [][game_status' # game_status =>
          << game_status, game_status' >> \in
              { << "pending", "day" >>, << "day", "voting" >>,
                << "voting", "night" >>, << "night", "day" >>,
                << "night", "completed" >> }]_vars

\* C4 amended: every change of the persisted phase is Pending->Day,
\* Day->Voting, Voting->Night, Night->Day, or a change from Day, Voting or
\* Night to Completed; Completed is never left.
PhaseOrder ==
    [][game_status' # game_status =>
          << game_status, game_status' >> \in
              { << "pending", "day" >>, << "day", "voting" >>,
                << "voting", "night" >>, << "night", "day" >>,
                << "day", "completed" >>, << "voting", "completed" >>,
                << "night", "completed" >> }]_vars

PhaseOrderWitness ==
    /\ game_status = "completed"
    /\ pc = "done"
    /\ winner = "town"
    /\ day_number = 2
    /\ mafia_target = None
    /\ \E i \in DOMAIN db_game_players :
          /\ db_game_players[i].elimination_type = "lynched"
          /\ db_game_players[i].eliminated_day = 2

\* C5: every run of GameRunner.run terminates.
RunTerminates == <>(pc \in {"done", "error"})

\* C6: a stop seen at the poll before a Day or before a Night ends the run:
\* no further phase is executed, the run returns no winner, the game is
\* marked Completed without a winner, GameEnded carries stopped = true, and
\* the players' alive flags and elimination records and the last emitted
\* event are not touched on the way.
StopEndsRun ==
    [][/\ (pc \in {"loop", "pre_night"} /\ series_status = "stop_requested") =>
             /\ pc' = "end"
             /\ stopped'
             /\ winner' = None
             /\ game_status' = game_status
             /\ last_event' = last_event
             /\ RosterUnchanged
       /\ (pc = "end" /\ stopped) =>
             /\ pc' = "done"
             /\ winner' = None
             /\ game_status' = "completed"
             /\ game_winner' = None
             /\ last_event'.type = "game_ended"
             /\ last_event'.payload.stopped = TRUE
             /\ RosterUnchanged]_vars

StopEndsRunWitness ==
    /\ pc = "done"
    /\ stopped
    /\ game_status = "completed"
    /\ last_event.type = "game_ended"
    /\ \E i \in DOMAIN db_game_players : ~ db_game_players[i].is_alive

\* C8: the delivery predicate is true exactly when the subscriber is a
\* viewer, or the event is Public, or it is Mafia-visible and the subscriber's
\* role is Mafia, or it is Private and the subscriber's player id is the
\* event's actor id; a Viewer-visibility event never goes to a non-viewer.
DeliveryPredicate ==
    pc = "filtered" =>
        LET sub == subscriptions[1]
            ev  == last_event
        IN  /\ send_result <=>
                  \/ sub.viewer_mode
                  \/ ev.visibility = "public"
                  \/ ev.visibility = "mafia" /\ sub.player_role = "mafia"
                  \/ ev.visibility = "private" /\ sub.player_id = ev.actor_id
            /\ (ev.visibility = "viewer" /\ ~ sub.viewer_mode) => ~ send_result

DeliveryPredicateWitness ==
    /\ pc = "filtered"
    /\ ~ send_result
    /\ ~ subscriptions[1].viewer_mode
    /\ last_event.visibility = "private"
    /\ subscriptions[1].player_id = "p1"
    /\ last_event.actor_id = "p2"

FixedCount(role) ==
    Cardinality({i \in DOMAIN player_ids : fixed_roles[player_ids[i]] = role})

WithinQuota ==
    /\ Len(player_ids) \in DOMAIN ROLE_DISTRIBUTION
    /\ \A role \in Roles :
          FixedCount(role) <= ROLE_DISTRIBUTION[Len(player_ids)][role]

\* C10: for a roster of 5, 6 or 7 and a fixed-role map within quota,
\* assign_roles creates exactly one row per player, a fixed-role player has
\* the fixed role, and the roles assigned are those of the distribution
\* table for the player count, each with its count.
RolesMatchDistribution ==
    (pc # "assign" /\ WithinQuota) =>
        /\ pc = "start"
        /\ Len(db_game_players) = Len(player_ids)
        /\ \A i \in DOMAIN player_ids :
              /\ Cardinality({j \in DOMAIN db_game_players :
                     db_game_players[j].player_id = player_ids[i]}) = 1
              /\ fixed_roles[player_ids[i]] # NoRole =>
                     \E j \in DOMAIN db_game_players :
                        /\ db_game_players[j].player_id = player_ids[i]
                        /\ db_game_players[j].role = fixed_roles[player_ids[i]]
        /\ \A role \in Roles :
              Cardinality({j \in DOMAIN db_game_players :
                              db_game_players[j].role = role})
                  = ROLE_DISTRIBUTION[Len(player_ids)][role]

RolesMatchDistributionWitness ==
    /\ pc = "start"
    /\ Len(player_ids) = 7
    /\ fixed_roles["p7"] = "mafia"
    /\ fixed_roles["p1"] = "townsperson"
    /\ db_game_players[2].role = "mafia"
    /\ db_game_players[7].role = "mafia"


StatusRank(st) ==
    CASE st = "pending" -> 0
      [] st = "in_progress" -> 1
      [] st = "stop_requested" -> 2
      [] st \in {"stopped", "completed"} -> 3

\* C7: a series' status only moves forward through Pending, InProgress,
\* StopRequested and then Stopped or Completed; it never returns to an
\* earlier status and never leaves Stopped or Completed.
SeriesStatusForward ==
    [][series_status' # series_status =>
          /\ StatusRank(series_status') > StatusRank(series_status)
          /\ series_status \notin {"stopped", "completed"}]_vars

\* C9: a Mafia-visibility event of the current game is delivered only to
\* subscribers in viewer mode or whose player is Mafia in that game.
MafiaEventsOnlyToMafia ==
    (last_event.visibility = "mafia" /\ last_event.game_id = game_number) =>
        \A i \in delivered :
            \/ subscriptions[i].viewer_mode
            \/ RoleIn(db_game_players, subscriptions[i].player_id) = "mafia"

----------------------------------------------------------------------------
(* Properties of the series orchestration and of the reflection *)

\* C11: when role assignment fails for a game of the series, no state of that
\* game exists: neither its Game row nor any GamePlayer row has been created.
RoleErrorBeforeGameState ==
    (o_pc = "except" /\ pc = "error") =>
        /\ games_created < game_number
        /\ db_game_players = << >>

\* The versions of a player's rows, in insertion order, are 0, 1, 2, ...
VersionsFromZero(rows) ==
    \A i \in DOMAIN rows : rows[i].version = i - 1

\* C12: the stored cheatsheet versions of every player are strictly
\* increasing integers starting at 0 with no duplicates; each newly persisted
\* row is appended with version = the previous latest version + 1 and is
\* tagged with the number of the game whose reflection created it.
CheatsheetVersionsIncrease ==
    /\ [](\A p \in DOMAIN cheatsheets : VersionsFromZero(cheatsheets[p]))
    /\ [][\A p \in DOMAIN cheatsheets :
            cheatsheets'[p] # cheatsheets[p] =>
                LET old == cheatsheets[p]
                    new == cheatsheets'[p]
                    row == new[Len(new)]
                IN  /\ Len(new) = Len(old) + 1
                    /\ SubSeq(new, 1, Len(old)) = old
                    /\ \A q \in Range(old) : q.version < row.version
                    /\ row.version = GetLatestCheatsheet(old).version + 1
                    /\ row.created_after_game = game_number]_vars

\* A player has a version stored after each of two games while another
\* participant's reflection of the second game is still running.
CheatsheetVersionsIncreaseWitness ==
    \E p, q \in Reflecting :
        /\ p # q
        /\ Len(cheatsheets[p]) = 3
        /\ cheatsheets[p][2].created_after_game = 1
        /\ cheatsheets[p][3].created_after_game = 2
        /\ r_pc[q] = "persist"

\* The rows of the queried player a query for game n may return.
Eligible(n) ==
    {r \in Range(cheatsheets[AsOfPlayer]) :
        r.created_after_game = NoGame \/ r.created_after_game < n}

\* The markers of the rows of the queried player, in version order.
Markers == [i \in DOMAIN cheatsheets[AsOfPlayer] |->
              cheatsheets[AsOfPlayer][i].created_after_game]

\* C13: the as-of query for game N returns a stored row whose marker is unset
\* or strictly less than N, and no such row has a higher version; with the
\* markers [null, 2, 5] it returns the row marked 2 for N = 3 and the initial
\* row for N = 1.
AsOfReturnsHighestEarlier ==
    asof_game # NoGame =>
        /\ asof_result \in Eligible(asof_game)
        /\ \A r \in Eligible(asof_game) : r.version <= asof_result.version
        /\ Markers = << NoGame, 2, 5 >> =>
              /\ asof_game = 3 => asof_result.created_after_game = 2
              /\ asof_game = 1 => asof_result = InitialCheatsheet

\* The query for game 3 on the markers [null, 2, 5] has returned the row
\* marked 2.
AsOfReturnsHighestEarlierWitness ==
    /\ Markers = << NoGame, 2, 5 >>
    /\ asof_game = 3
    /\ asof_result.version = 1
    /\ asof_result.created_after_game = 2

\* The reflector of p raised LLMError and run_for_player has returned.
ReflectorFailedFor(p) ==
    /\ r_pc[p] = "returned"
    /\ r_local[p].raised = "LLMError"
    /\ r_local[p].reflector_output = None

\* The latest stored cheatsheet of p is the one its reflection started from.
LatestUnchanged(p) ==
    LET latest == GetLatestCheatsheet(cheatsheets[p])
        before == r_local[p].current_cheatsheet
    IN  /\ latest.version = before.version
        /\ latest.items = before.items
        /\ latest.created_after_game # game_number

\* C14: when the Reflector stage of a participant fails, the Curator is not
\* called, no new version is stored (latest version and items are those from
\* before the reflection) and a reflection event with status "failed" is
\* recorded for the participant.
ReflectorFailureSkipsReflection ==
    \A p \in Reflecting :
        ReflectorFailedFor(p) =>
            /\ ~ r_local[p].curator_called
            /\ LatestUnchanged(p)
            /\ ReflectionEvent("reflection_completed", "failed", 0)
                  \in r_events[p]
            /\ \A e \in r_events[p] :
                  e.type \notin {"cheatsheet_updated", "error"}

\* In the second game the reflector of a participant that advanced a version
\* after the first game has failed.
ReflectorFailureSkipsReflectionWitness ==
    \E p \in Reflecting :
        /\ game_number = 2
        /\ ReflectorFailedFor(p)
        /\ Len(cheatsheets[p]) = 2

\* The curator of p raised LLMError after its reflector had returned, and
\* run_for_player has returned.
CuratorFailedFor(p) ==
    /\ r_pc[p] = "returned"
    /\ r_local[p].raised = "LLMError"
    /\ r_local[p].reflector_output = "deltas"

\* C15: when the Curator stage fails after a successful Reflector stage, the
\* participant's latest stored cheatsheet has the version number and the
\* items it had before the reflection.
CuratorFailureLeavesCheatsheet ==
    \A p \in Reflecting : CuratorFailedFor(p) => LatestUnchanged(p)

\* The reflection of p has returned with every stage succeeding.
Succeeded(p) ==
    /\ r_pc[p] = "returned"
    /\ r_local[p].raised = None

\* The next version of p is stored: a row tagged with the game, one version
\* above the cheatsheet the reflection started from, holding the curated
\* items.
NextVersionStored(p) ==
    \E i \in DOMAIN cheatsheets[p] :
        /\ cheatsheets[p][i].created_after_game = game_number
        /\ cheatsheets[p][i].version =
              r_local[p].current_cheatsheet.version + 1
        /\ cheatsheets[p][i].items = r_local[p].final_cheatsheet.items

\* C16: with the reflections of the participants running concurrently, a
\* failure of one participant's reflection (LLMError or another exception)
\* leaves the task, the locals, the events and the rows of every other
\* participant as they are; every participant whose own stages succeed has
\* its next version stored; a reflection writes only its own player's rows.
ReflectionsIndependent ==
    /\ [](\A p \in Reflecting : Succeeded(p) => NextVersionStored(p))
    /\ [][\A q \in Reflecting :
            /\ (r_pc[q] # "returned" /\ r_pc'[q] = "returned"
                   /\ r_local'[q].raised # None) =>
                  \A p \in DOMAIN r_pc \ {q} :
                      /\ r_pc'[p] = r_pc[p]
                      /\ r_local'[p] = r_local[p]
                      /\ r_events'[p] = r_events[p]
                      /\ cheatsheets'[p] = cheatsheets[p]
            /\ cheatsheets'[q] # cheatsheets[q] =>
                  /\ r_pc[q] = "persist"
                  /\ \A p \in DOMAIN cheatsheets \ {q} :
                        cheatsheets'[p] = cheatsheets[p]]_vars

\* One participant's reflection ended with an exception while another was
\* running, and that other one has stored its next version.
ReflectionsIndependentWitness ==
    \E p, q \in Reflecting :
        /\ p # q
        /\ r_pc[q] = "returned"
        /\ r_local[q].raised = "Exception"
        /\ ReflectionEvent("error", "reflection", 0) \in r_events[q]
        /\ Succeeded(p)
        /\ NextVersionStored(p)
        /\ Len(cheatsheets[q]) = 1

\* The participants of the game run_series is at.
Participants == {db_game_players[i].player_id : i \in DOMAIN db_game_players}

\* run_series is past the reflections of a game that ended with a winner.
PastReflections ==
    /\ pc = "done"
    /\ winner # None
    /\ o_pc \notin {"run", "reflect"}

\* C17: after a game of the series that ended with a winner the reflection
\* has run for each participant of the game, and run_series goes on to the
\* next game: it returns only after the last game or on a stop request.
ReflectionAfterEveryGame ==
    PastReflections =>
        /\ \A p \in Participants : r_pc[p] = "returned"
        /\ o_pc = "returned" =>
              game_number = TotalGames \/ stop_after_reflection

\* A step of run_series.
OrchestratorStep == o_pc' # o_pc

\* _mark_series_stopped followed by 'return': the series is written Stopped,
\* run_series is over and no Game row is created from then on.
StoppedForGood ==
    /\ (o_pc = "mark_stopped" /\ OrchestratorStep) =>
          /\ series_status' = "stopped"
          /\ o_pc' = "returned"
    /\ o_pc \in {"mark_stopped", "returned"} =>
          /\ games_created' = games_created
          /\ o_pc' \in {"mark_stopped", "returned"}

\* C18: when the poll of the stop flag before game n finds the series in
\* StopRequested, run_series marks the series Stopped and returns, and
\* neither game n nor a later game is created.
StopAtPollEndsSeries ==
    [][/\ (o_pc = "next_game" /\ OrchestratorStep
             /\ game_number < TotalGames
             /\ series_status = "stop_requested") =>
              /\ o_pc' = "mark_stopped"
              /\ games_created' = games_created
              /\ games_created < game_number'
       /\ StoppedForGood]_vars

\* The poll before game 1 found the stop request: the series is Stopped,
\* run_series has returned and no game exists.
StopAtPollEndsSeriesWitness ==
    /\ o_pc = "returned"
    /\ series_status = "stopped"
    /\ game_number = 1
    /\ games_created = 0

\* C19: when GameRunner.run returns no winner, run_series marks the series
\* Stopped and returns; no reflection is run for the game and no further
\* game is created.
NoWinnerStopsSeries ==
    [][/\ (o_pc = "run" /\ OrchestratorStep /\ pc = "done"
             /\ winner = None) =>
              /\ o_pc' = "mark_stopped"
              /\ games_created' = games_created
       /\ (winner = None /\ o_pc \in {"run", "mark_stopped", "returned"}) =>
              /\ r_pc' = r_pc
              /\ cheatsheets' = cheatsheets
              /\ o_pc' # "reflect"
       /\ StoppedForGood]_vars

\* The game was stopped while it ran and returned no winner: the series is
\* Stopped, its only game is game 1 and no participant was reflected.
NoWinnerStopsSeriesWitness ==
    /\ o_pc = "returned"
    /\ pc = "done"
    /\ stopped
    /\ winner = None
    /\ series_status = "stopped"
    /\ games_created = 1
    /\ \A p \in Participants : r_pc[p] = "idle"

\* C20: when a stop request is present after a game that ended with a winner
\* and before its reflections complete, the reflections of the game still
\* run for every participant and run_series ends with the series marked
\* Stopped.
StopDuringReflectionStops ==
    (PastReflections /\ stop_after_reflection /\ o_pc = "returned") =>
        /\ \A p \in Participants : r_pc[p] = "returned"
        /\ series_status = "stopped"

----------------------------------------------------------------------------
(* Properties of the series loop, of the events and of the oracle calls *)

\* No stop_series request has been made.
NoStopRequest ==
    /\ stop_pc = "idle"
    /\ stops_left = MaxStops

\* run_series has returned after a game that was created, ran without an
\* exception and ended with a winner.
ReturnedAfterWonGame ==
    /\ o_pc = "returned"
    /\ pc = "done"
    /\ winner # None
    /\ games_created = game_number

\* C21: with no stop request and no failure of a game, run_series returns
\* only after it has created total_games games, each followed by the
\* reflections of its participants, and has marked the series Completed.
SeriesRunsAllGames ==
    (ReturnedAfterWonGame /\ NoStopRequest) =>
        /\ games_created = TotalGames
        /\ \A p \in Participants : r_pc[p] = "returned"
        /\ series_status = "completed"

\* The except block of run_series has run: its error event is the last event
\* of the series and run_series has returned.
ExceptionCaptured ==
    /\ o_pc = "returned"
    /\ last_event.type = "error"
    /\ last_event.visibility = "viewer"

\* C22: once an exception that escaped the game loop has been captured and
\* its Viewer-visibility error event recorded, and no request is in progress,
\* the series is Completed: it is not left in InProgress or StopRequested.
ExceptionEndsCompleted ==
    (ExceptionCaptured /\ stop_pc = "idle" /\ start_pc = "done") =>
        series_status = "completed"

\* C23: a failure to persist or deliver an event never aborts the phase, the
\* game or the series: GameRunner.run is never left by an exception raised
\* by _emit_event.
EmissionFailureSwallowed == pc # "emit_raised"

\* The decision point has been left, with a value or by an exception.
DecisionOver == pc \in {"decided", "raised"}

\* C24: when the oracle call of a speech, a vote or a night decision fails
\* (timeout, unparseable response or provider error), no exception leaves the
\* decision point: a speech becomes the fixed line, a vote a living player
\* other than the voter or "no_lynch", a night target one of the valid
\* targets, and the decision point goes on to its next step.
OracleFailureFallsBack ==
    (DecisionOver /\ decision.answer \in OracleErrors) =>
        /\ pc = "decided"
        /\ ~ decision.raised
        /\ decision.kind = "speech" => decision.result = FallbackSpeech
        /\ decision.kind # "speech" =>
              \/ decision.kind = "vote" /\ decision.result = NO_LYNCH
              \/ \E i \in DOMAIN game_players :
                    /\ decision.result = Name(game_players[i])
                    /\ game_players[i].is_alive
                    /\ decision.kind \in {"vote", "deputy_investigate"} =>
                          i # decision.actor
                    /\ decision.kind = "mafia_kill" =>
                          game_players[i].role # "mafia"

\* The oracle call of a vote ended with an unparseable response and the
\* voter's ballot is a living player chosen at random.
OracleFailureFallsBackWitness ==
    /\ pc = "decided"
    /\ decision.kind = "vote"
    /\ decision.answer = LLMParseError
    /\ decision.result \in AliveNames(game_players)

\* C25: the as-of query for a game, asked at any time after the game
\* started, returns the cheatsheet (version and items) the runner loaded for
\* the player when the game started, whatever the reflections have stored
\* since.
AsOfMatchesLoaded ==
    /\ \A p \in Reflecting : \A n \in 1..Len(loaded[p]) :
          CsSchema(GetCheatsheetAtGame(cheatsheets[p], n)) = loaded[p][n]
    /\ asof_game # NoGame =>
          CsSchema(asof_result) = loaded[AsOfPlayer][asof_game]

\* The query for game 1 is answered with version 0 after the reflections of
\* games 1 and 2 have both stored a version for the player.
AsOfMatchesLoadedWitness ==
    /\ asof_game = 1
    /\ asof_result.version = 0
    /\ Len(cheatsheets[AsOfPlayer]) >= 3
    /\ Len(loaded[AsOfPlayer]) >= 2
    /\ loaded[AsOfPlayer][2].version = 1

RouteAsSpecified ==
    pc = "routed" =>
        route.result =
            IF route.iteration >= route.max_iterations
            THEN IF IsCompleteResponse(route) THEN "__end__" ELSE "evaluator"
            ELSE IF route.is_ai /\ route.tool_calls THEN "tools"
                 ELSE "evaluator"

\* The attempts a call with max_retries can make.
AttemptsAllowed ==
    IF llm_result.max_retries + 1 > 0 THEN llm_result.max_retries + 1 ELSE 0

\* complete_json has returned or raised.
CallOver == o_pc \in {"returned", "raised"}

\* The call makes at most max_retries + 1 attempts, none longer than the
\* timeout; it returns with the attempt that parsed, and raises an oracle
\* error only after all its attempts have failed.
CallBounded ==
    /\ llm_result.calls <= AttemptsAllowed
    /\ llm_result.longest <= llm_result.timeout
    /\ o_pc = "returned" =>
          llm_result.result = Parsed /\ llm_result.calls = attempt + 1
    /\ o_pc = "raised" =>
          /\ llm_result.result \in OracleErrors
          /\ llm_result.calls = AttemptsAllowed
    /\ ~ CallOver => llm_result.result = NoError

\* C28: one call of complete_json makes at most max_retries + 1 attempts,
\* each bounded by the timeout, returns at the first attempt that parses and
\* validates, otherwise raises an oracle error after the last attempt; and
\* every call ends.
OracleCallBounded == [] CallBounded /\ <> CallOver

\* All max_retries + 1 = 3 attempts failed, the last one by a timeout, and
\* the call raised the timeout error.
OracleCallBoundedWitness ==
    /\ o_pc = "raised"
    /\ llm_result.max_retries = 2
    /\ llm_result.calls = 3
    /\ llm_result.result = LLMTimeoutError
    /\ llm_result.longest = llm_result.timeout

\* C29: in a series with a base seed, 0 included, the generators of the
\* role assignment and of the runner of every game n are seeded with the
\* value base seed + n, so that the games of the series have different
\* seeds.
GamesSeededFromBase ==
    seeds.has_seed =>
        \A n \in DOMAIN seeds.games :
            LET g == seeds.games[n]
            IN  /\ g.game_seed = Seed(seeds.base_seed + n)
                /\ g.roles_rng # NoRandom =>
                      g.roles_rng = [seeded |-> TRUE,
                                     state |-> seeds.base_seed + n]
                /\ g.runner_rng # NoRandom =>
                      g.runner_rng = [seeded |-> TRUE,
                                      state |-> seeds.base_seed + n]
                /\ \A m \in DOMAIN seeds.games :
                      m # n => seeds.games[m].game_seed # g.game_seed

\* The lines of the speeches made before the k-th prompt of the day.
EarlierSpeeches(k) ==
    [j \in 1..(k - 1) |->
        DiscussionLine(prompts[j].speaker, prompts[j].content)]

\* C30: in every day each player alive at the start of the day speaks
\* exactly once, and the prompt of the k-th speaker holds exactly the lines
\* of the k-1 earlier speakers of that day, in speaking order, and nothing
\* of an earlier day.
SpeakersSeeEarlierSpeeches ==
    /\ \A k \in DOMAIN prompts :
          /\ prompts[k].day = day_number
          /\ prompts[k].discussion = EarlierSpeeches(k)
    /\ pc = "voting" =>
          /\ Len(prompts) = Cardinality(AliveNames(game_players))
          /\ {prompts[k].speaker : k \in DOMAIN prompts} =
                 AliveNames(game_players)

\* On day 2 the third speaker was prompted with the two speeches of the
\* day made before, one of them the fallback line.
SpeakersSeeEarlierSpeechesWitness ==
    /\ day_number = 2
    /\ pc = "voting"
    /\ Len(prompts) >= 3
    /\ Len(prompts[3].discussion) = 2
    /\ prompts[1].content = FallbackSpeech
    /\ prompts[2].content = OracleSpeech

----------------------------------------------------------------------------
(* Properties of the ballots, of the night choices and of the roster *)

\* C31: in the voting loop exactly one ballot is recorded for each player
\* alive at the start of the day, and every recorded ballot is no_lynch or
\* names (in some letter case) a living player other than the voter,
\* whatever the oracle answered.
BallotsValid ==
    pc \in {"vote", "resolve"} =>
        /\ \A id \in DOMAIN votes :
              \/ votes[id] = NO_LYNCH
              \/ LET t == GetPlayerByName(game_players, votes[id])
                 IN  /\ t # 0
                     /\ game_players[t].is_alive
                     /\ game_players[t].player_id # id
        /\ \A id \in DOMAIN votes :
              \E i \in DOMAIN game_players :
                 game_players[i].player_id = id /\ game_players[i].is_alive
        /\ pc = "resolve" =>
              DOMAIN votes = {game_players[i].player_id :
                                 i \in {j \in DOMAIN game_players :
                                           game_players[j].is_alive}}

\* All five players of day 1 have cast their ballot, one of them no_lynch
\* and one a name in another letter case.
BallotsValidWitness ==
    /\ pc = "resolve"
    /\ Cardinality(DOMAIN votes) = 5
    /\ \E id \in DOMAIN votes : votes[id] = NO_LYNCH
    /\ \E id \in DOMAIN votes : votes[id][2] = "recased"

\* The ballots that designate the player of index i, in any spelling.
BallotsDesignating(i) ==
    Cardinality({id \in DOMAIN votes :
                    /\ votes[id] # NO_LYNCH
                    /\ GetPlayerByName(game_players, votes[id]) = i})

\* The ballots for no_lynch.
BallotsNoLynch == Cardinality({id \in DOMAIN votes : votes[id] = NO_LYNCH})

\* C37: in lynch resolution the ballots that designate the same living
\* player count together, whatever spelling of the name each carries: a
\* player designated by strictly more ballots than any other player and than
\* no_lynch is lynched.
SpellingsCountedTogether ==
    [][pc = "resolve" =>
          \A i \in DOMAIN game_players :
              (/\ BallotsDesignating(i) > BallotsNoLynch
               /\ \A j \in DOMAIN game_players \ {i} :
                     BallotsDesignating(i) > BallotsDesignating(j))
                  => ~ game_players'[i].is_alive]_vars

Eliminated ==
    {i \in DOMAIN game_players :
        game_players[i].is_alive /\ ~ game_players'[i].is_alive}

\* C33: once the runner has loaded the roster of the game, no step adds or
\* removes an entry or changes a player or a role; an alive flag changes only
\* from alive to dead, only in the lynch resolution of the Voting or in the
\* resolution of the Night, and for at most one player per phase; the stop
\* request and every other step leave the flags as they are; the targets of
\* a night are players alive at its start; and the dead stay listed, dead,
\* in the cache and in the rows.
RosterFrame ==
    [][pc \notin {"assign", "start"} =>
          /\ DOMAIN game_players' = DOMAIN game_players
          /\ DOMAIN db_game_players' = DOMAIN game_players
          /\ \A i \in DOMAIN game_players :
                /\ game_players'[i].player_id = game_players[i].player_id
                /\ game_players'[i].role = game_players[i].role
                /\ game_players'[i].is_alive => game_players[i].is_alive
                /\ db_game_players'[i].player_id = game_players[i].player_id
                /\ db_game_players'[i].is_alive = game_players'[i].is_alive
          /\ Cardinality(Eliminated) <= 1
          /\ Eliminated # {} => pc \in {"voting", "night"}
          /\ pc = "night" =>
                \A t \in {mafia_target', doctor_target'} \ {None} :
                    \E i \in DOMAIN game_players :
                       /\ game_players[i].player_id = t
                       /\ game_players[i].is_alive]_vars

\* Day 2 of a game of five: one player was lynched on day 1 and one killed
\* in night 1, and both are still listed.
RosterFrameWitness ==
    /\ pc = "voting"
    /\ day_number = 2
    /\ Len(game_players) = 5
    /\ \E i, j \in DOMAIN db_game_players :
          /\ db_game_players[i].elimination_type = "lynched"
          /\ db_game_players[j].elimination_type = "killed"
          /\ ~ game_players[i].is_alive
          /\ ~ game_players[j].is_alive

\* C35: whenever a Day phase or a Night phase begins, at least one Mafia
\* member is alive and the living Mafia are strictly fewer than the other
\* living players, so that no win condition holds already, and in a Night
\* the Mafia has a valid target.
PhaseStartsUndecided ==
    pc \in {"day", "night"} =>
        LET alive == Range(AlivePlayers(game_players))
            mafia == {p \in alive : p.role = "mafia"}
        IN  /\ Cardinality(mafia) >= 1
            /\ Cardinality(mafia) < Cardinality(alive \ mafia)
            /\ CheckWinCondition(game_players) = None
            /\ pc = "night" => None \notin MafiaKillChoice(game_players)

\* Night 2 begins with one Mafia member and two other players alive.
PhaseStartsUndecidedWitness ==
    /\ pc = "night"
    /\ day_number = 2
    /\ Len(AlivePlayers(game_players)) = 3
    /\ Cardinality({i \in DOMAIN game_players :
                       game_players[i].is_alive
                          /\ game_players[i].role = "mafia"}) = 1

----------------------------------------------------------------------------
\* One run of the agent-loop graph from its entry point.

\* agent_node: the model answers with an AI message, with or without tool
\* calls, and the iteration counter goes up by one.
AgentNode ==
    /\ pc = "agent"
    /\ \E tc \in BOOLEAN, len \in ContentLengths :
          route' = [route EXCEPT !.is_ai = TRUE, !.tool_calls = tc,
                                 !.content_len = len,
                                 !.iteration = @ + 1, !.runs = @ + 1]
    /\ pc' = "agent_edge"
    /\ UNCHANGED << series_status, gameVarsButPc, lynchVars, wsVars,
                    last_event, seriesVars, reflVars, loaded, dayVars,
                    oracleVars, selected, seeds,
                    snapshot, tasks >>

\* The conditional edge of build_orchestrator_graph after the agent node:
\* the run moves to the node route_after_agent names, and stops with the
\* exception when route_after_agent raises.
AgentEdge ==
    /\ pc = "agent_edge"
    /\ route' = [route EXCEPT !.result = RouteAfterAgent(route)]
    /\ pc' = IF RouteAfterAgent(route) = AttributeError
             THEN "raised"
             ELSE RouteAfterAgent(route)
    /\ UNCHANGED << series_status, gameVarsButPc, lynchVars, wsVars,
                    last_event, seriesVars, reflVars, loaded, dayVars,
                    oracleVars, selected, seeds,
                    snapshot, tasks >>

NextGraph ==
    \/ AgentNode
    \/ AgentEdge

\* arun: the run starts at the agent node with the task as the only
\* message; the counter and the limit are those of the state handed in.
InitGraph ==
    /\ series_status = "pending"
    /\ player_ids = Roster
    /\ fixed_roles = SeriesFixedRoles
    /\ pc = "agent"
    /\ IdleGame
    /\ IdleWs
    /\ IdleSeries
    /\ IdleRefl
    /\ IdleLoaded
    /\ IdleDay
    /\ IdleOracle
    /\ selected = {}
    /\ seeds = NoSeeds
    /\ snapshot = NoSnapshot
    /\ tasks = NoTasks
    /\ \E i \in 0..MaxIterations, m \in 1..MaxIterations,
          len \in ContentLengths :
          route = [iteration |-> i, max_iterations |-> m, is_ai |-> FALSE,
                   tool_calls |-> FALSE, content_len |-> len,
                   result |-> None, runs |-> 0]

SpecGraph == InitGraph /\ [][NextGraph]_vars

\* C34: in one run of the graph the agent node executes at most
\* max_iterations times and the run stops nowhere but in the end state: it
\* is never cut short by an exception of a routing function.
AgentRunsBoundedAndEnds ==
    /\ route.runs <= route.max_iterations
    /\ pc # "raised"

\* C36: once a stop request is accepted (the status is StopRequested), the
\* request is not lost: the status is next written only as Stopped, or as
\* Completed when the last game of the series has finished, and no Game row
\* is created while the request stands.
StopRequestKept ==
    [][series_status = "stop_requested" =>
          /\ games_created' = games_created
          /\ \/ series_status' \in {"stop_requested", "stopped"}
             \/ /\ series_status' = "completed"
                /\ game_number = TotalGames
                /\ game_status = "completed"]_vars

----------------------------------------------------------------------------
\* The snapshot messages of a running game.

\* _get_players_for_snapshot: name, role and alive flag of every player of
\* the game.
GetPlayersForSnapshot(gps) ==
    [i \in DOMAIN gps |->
        [name |-> gps[i].player_id, role |-> gps[i].role,
         is_alive |-> gps[i].is_alive]]

\* broadcast_snapshot: the message goes to every subscription of the
\* series.
BroadcastSnapshot(subs, players) ==
    [to |-> DOMAIN subs, players |-> players]

\* The 'subscribe' message of websocket_endpoint followed by
\* send_initial_snapshot: the new subscriber is sent the rows of the active
\* game of the series.
SnapSubscribe ==
    /\ Len(subscriptions) < MaxSubs
    /\ game_status # "completed"
    /\ \E vm \in BOOLEAN, id \in {None, "p1"},
          role \in {None, "mafia", "townsperson"} :
          subscriptions' =
              Append(subscriptions, Subscription(vm, id, role))
    /\ snapshot' = [to |-> {Len(subscriptions) + 1},
                    players |-> GetPlayersForSnapshot(db_game_players)]
    /\ UNCHANGED << series_status, gameVars, lynchVars, last_event,
                    delivered, send_result, seriesVars, reflVars, loaded,
                    dayVars, oracleVars, selected, route, seeds, tasks >>

\* The broadcast_snapshot call of the runner at the start of a day or of a
\* night and after an elimination.
SnapBroadcast ==
    /\ game_status # "completed"
    /\ snapshot' = BroadcastSnapshot(subscriptions,
                                     GetPlayersForSnapshot(game_players))
    /\ UNCHANGED << series_status, gameVars, lynchVars, wsVars, last_event,
                    seriesVars, reflVars, loaded, dayVars, oracleVars,
                    selected, route, seeds, tasks >>

NextSnapshot ==
    \/ SnapSubscribe
    \/ SnapBroadcast

\* A running game of five on day 1 or day 2, without subscribers.
InitSnapshot ==
    /\ IdleSeries
    /\ IdleRefl
    /\ IdleLoaded
    /\ IdleDay
    /\ IdleOracle
    /\ series_status = "in_progress"
    /\ player_ids = Roster
    /\ fixed_roles = [p \in Range(AllPlayers) |-> NoRole]
    /\ pc = "day"
    /\ game_status = "day"
    /\ game_winner = None
    /\ \E dead \in SUBSET (1..5) :
          /\ Cardinality(dead) <= 2
          /\ db_game_players = RowsWithDead(dead)
          /\ day_number = IF dead = {} THEN 1 ELSE 2
    /\ game_day_number = day_number
    /\ game_players = LoadGamePlayers(db_game_players)
    /\ CheckWinCondition(game_players) = None
    /\ winner = None
    /\ stopped = FALSE
    /\ mafia_target = None
    /\ doctor_target = None
    /\ last_event = Event("day_started", "public", None, None,
                          [day_number |-> day_number])
    /\ votes = << >>
    /\ vote_counts = EmptyCounts
    /\ IdleWs
    /\ IdleCalls

SpecSnapshot == InitSnapshot /\ [][NextSnapshot]_vars

\* C38: no WebSocket message sent to a subscriber that is not a viewer
\* shows the role of a living player.
SnapshotHidesLivingRoles ==
    \A k \in snapshot.to :
        ~ subscriptions[k].viewer_mode =>
            \A i \in DOMAIN snapshot.players :
                snapshot.players[i].is_alive =>
                    snapshot.players[i].role = None

\* C39: whenever the series is in a terminal status (Stopped or Completed),
\* also after an exception captured by run_series, the game created last for
\* it is in phase Completed; the games before it were completed before it
\* was created.
TerminalSeriesGamesCompleted ==
    (series_status \in {"stopped", "completed"} /\ games_created > 0)
        => game_status = "completed"

----------------------------------------------------------------------------
\* Start requests for one series served concurrently: every request is a
\* call of the start_series handler with a database session of its own, and
\* every await of the handler lets the other requests run.

startUnchanged ==
    << gameVars, lynchVars, wsVars, last_event, stop_pc, stops_left, o_pc,
       stop_after_reflection, reflVars, loaded, dayVars, oracleVars,
       selected, route, seeds, snapshot >>

\* start_series up to the status check: get_series, then the request is
\* rejected with 400 unless the status read is Pending.
HStartRead(h) ==
    /\ start_pc[h] = "idle"
    /\ start_pc' = [start_pc EXCEPT
                       ![h] = IF series_status # "pending"
                              THEN "rejected" ELSE "checked"]
    /\ UNCHANGED << series_status, current_game_number, game_number,
                    games_created, tasks >>
    /\ UNCHANGED startUnchanged

\* update_series_status(IN_PROGRESS) and the commit: the UPDATE has no
\* condition on the status it replaces.
HStartWrite(h) ==
    /\ start_pc[h] = "checked"
    /\ series_status' = "in_progress"
    /\ start_pc' = [start_pc EXCEPT ![h] = "written"]
    /\ UNCHANGED << current_game_number, game_number, games_created, tasks >>
    /\ UNCHANGED startUnchanged

\* asyncio.create_task(run_series(...)), recorded in _running_series.
HStartLaunch(h) ==
    /\ start_pc[h] = "written"
    /\ tasks' = [tasks EXCEPT ![h] = "load"]
    /\ start_pc' = [start_pc EXCEPT ![h] = "done"]
    /\ UNCHANGED << series_status, current_game_number, game_number,
                    games_created >>
    /\ UNCHANGED startUnchanged

\* run_series of a created task up to its game loop.
TLoad(h) ==
    /\ tasks[h] = "load"
    /\ tasks' = [tasks EXCEPT ![h] = "next_game"]
    /\ UNCHANGED << series_status, current_game_number, game_number,
                    games_created, start_pc >>
    /\ UNCHANGED startUnchanged

\* The first iteration of the game loop of a task: the status is written
\* with current_game_number = 1 and the Game row of game 1 is created.
TCreateGame(h) ==
    /\ tasks[h] = "next_game"
    /\ series_status' = "in_progress"
    /\ current_game_number' = 1
    /\ games_created' = games_created + 1
    /\ tasks' = [tasks EXCEPT ![h] = "run"]
    /\ UNCHANGED << game_number, start_pc >>
    /\ UNCHANGED startUnchanged

StartRequest == \E h \in StartHandlers : HStartRead(h)

StartUpdate == \E h \in StartHandlers : HStartWrite(h)

StartLaunch == \E h \in StartHandlers : HStartLaunch(h)

TaskLoad == \E h \in StartHandlers : TLoad(h)

TaskCreateGame == \E h \in StartHandlers : TCreateGame(h)

NextStart ==
    \/ StartRequest
    \/ StartUpdate
    \/ StartLaunch
    \/ TaskLoad
    \/ TaskCreateGame

\* A series just created by create_series and MaxStarts start requests
\* for it.
InitStart ==
    /\ series_status = "pending"
    /\ current_game_number = 0
    /\ player_ids = Roster
    /\ fixed_roles = SeriesFixedRoles
    /\ pc = "idle"
    /\ IdleGame
    /\ IdleWs
    /\ start_pc = [h \in StartHandlers |-> "idle"]
    /\ stop_pc = "idle"
    /\ stops_left = 0
    /\ o_pc = "idle"
    /\ game_number = 0
    /\ stop_after_reflection = FALSE
    /\ games_created = 0
    /\ IdleRefl
    /\ IdleLoaded
    /\ IdleDay
    /\ IdleOracle
    /\ IdleCalls

SpecStart == InitStart /\ [][NextStart]_vars

\* C40: at most one run_series task is started for a series: of the start
\* requests served concurrently, at most one passes the Pending check.
OneRunSeriesTask ==
    /\ Cardinality({h \in StartHandlers : tasks[h] # "none"}) <= 1
    /\ Cardinality({h \in StartHandlers :
                       start_pc[h] \in {"checked", "written", "done"}}) <= 1

====
